---- MODULE Spec2Model ----
(***************************************************************************)
(* DuckTrack recording session engine: the Recorder thread                 *)
(* (src/ducktrack/recorder.py), the calls it makes on the OBS client       *)
(* (src/ducktrack/obs_client.py) and the control thread that drives it     *)
(* (src/ducktrack/app.py).                                                  *)
(*                                                                         *)
(* Threads: the control thread (constructor, pause, resume, the steps of   *)
(* stop_recording, terminate), the recorder thread (Recorder.run), the     *)
(* listener threads (the on_* callbacks) and the fallback monitor thread.  *)
(* Every step of a thread is one action; steps of different threads        *)
(* interleave freely.                                                      *)
(***************************************************************************)
EXTENDS Naturals, Integers, Sequences, FiniteSets

VARIABLES
    platform,                       \* system(): "Darwin" or "Other"
    ctor,                           \* Recorder(): "none", "ok" or "failed" (raised)
    use_fallback,                   \* self.use_fallback
    thread_handle_error_detected,   \* self.thread_handle_error_detected
    macos_monitor,                  \* "unset" (no attribute) or "obj"
    mouse_listener,                 \* "unset", "None" or "obj"
    keyboard_listener,              \* "unset", "None" or "obj"
    events_file,                    \* "unopened", "open" or "closed"
    is_recording,                   \* self._is_recording
    is_paused,                      \* self._is_paused
    event_queue,                    \* self.event_queue (FIFO of records)
    log,                            \* the records of events.jsonl, in file order
    capture_method,                 \* run's local capture_method
    mouse_running,                  \* self.mouse_listener.running
    keyboard_running,               \* self.keyboard_listener.running
    monitor_running,                \* self.macos_monitor.running
    runPc,                          \* position of the recorder thread in run()
    stopPc,                         \* position of the control thread in stop_recording()
    obs_calls,                      \* calls issued on the OBS client, in order
    timings_added,                  \* add_obs_record_state_timings was called
    stopped_signals,                \* number of recording_stopped.emit()
    term_requested,                 \* QThread.terminate() was called
    second_recorder,                \* the next Recorder() of the application: "none", or the
                                    \* state the earlier session was in when it was created
    \* history (ghost) variables
    enqueued,                       \* every record ever put on event_queue, in put order
    faulted,                        \* some collaborator call raised during the session
    smoke_capability_error,         \* a smoke test raised the _ThreadHandle TypeError
    backend_error,                  \* building or testing the listeners raised another exception
    renamed_with,                   \* state of events.jsonl when the app renamed the directory
    write_failed,                   \* a write or flush of the writer loop has raised
    restore,                        \* what became of the client's restore of the old profile
    monPc,                          \* position of the fallback monitor's thread
    permission_check_count,         \* MacOSInputMonitor.permission_check_count
    mon_current_time,               \* _run_monitor's local current_time
    mon_last_sentinel_time,         \* _run_monitor's local last_sentinel_time
    mon_wake,                       \* end of _run_monitor's time.sleep(0.5)
    sample_xy,                      \* _run_monitor's locals x, y (the last sample)
    failed_streak,                  \* consecutive samples that failed, up to now
    notifyPc,                       \* where on_record_state_changed is on the event client's thread
    output_state,                   \* data.output_state of the notification being handled
    record_state_events,            \* OBSClient.record_state_events: state -> list of timestamps
    arrivals,                       \* the states of the notifications so far, in arrival order
    perf_counter,                   \* the last value time.perf_counter() returned
    handed,                         \* the argument of add_obs_record_state_timings, as it was passed
    stop_calls,                     \* calls of stop_recording so far
    stop_done,                      \* teardown steps executed by the effective stop
    stop_raised,                    \* teardown steps that raised
    stop_at,                        \* where the recorder thread was when the effective stop began
    pause_calls,                    \* calls of pause_recording so far
    resume_calls,                   \* calls of resume_recording so far
    late_calls,                     \* pause, resume and stop calls made after the effective stop
    put_failures,                   \* event_queue.put calls that raised
    producer_raised,                \* an exception of event_queue.put left its producer
    error_marks,                    \* length of the put history at every capture error
    \* OBSClient.__init__
    obsPc,                          \* position in OBSClient.__init__
    attempt,                        \* the loop variable of the connection retry loop
    connect_log,                    \* outcome of every connection attempt made, in order
    sleeps,                         \* number of time.sleep(2) backoffs taken
    cfg_index,                      \* next step of the configuration sequence
    issued,                         \* configuration requests issued, in order
    cfg_failed,                     \* configuration requests that raised
    deliveries,                     \* input callbacks invoked by the backends
    \* time (in ticks of half a time unit)
    now,                            \* time.time()
    current_time,                   \* run's local current_time
    last_sentinel_time,             \* run's local last_sentinel_time
    last_file_write_time,           \* run's local last_file_write_time
    get_start,                      \* when the pending event_queue.get began
    last_arrival,                   \* when the last input event was enqueued
    gaps,                           \* per put: time since the previous input event arrived (0 for other records)
    sentinel_since_input,           \* a sentinel reached the log after the last input record
    unsignalled_gap                 \* longest silence that ended in an input record written with no
                                    \* sentinel after the input record before it

vars == <<platform, ctor, use_fallback, thread_handle_error_detected, macos_monitor,
          mouse_listener, keyboard_listener, events_file, is_recording, is_paused,
          event_queue, log, capture_method, mouse_running, keyboard_running,
          monitor_running, runPc, stopPc, obs_calls, timings_added, stopped_signals,
          term_requested, enqueued, faulted, smoke_capability_error, backend_error,
          stop_calls,
          stop_done, stop_raised, pause_calls, resume_calls, deliveries, now, current_time,
          last_sentinel_time, last_file_write_time, get_start, last_arrival,
          gaps, sentinel_since_input, unsignalled_gap, stop_at, second_recorder, late_calls, obsPc, attempt, connect_log, sleeps,
          cfg_index, issued, cfg_failed, put_failures, producer_raised, error_marks,
          renamed_with, write_failed, restore, monPc, permission_check_count, mon_current_time,
          mon_last_sentinel_time, mon_wake, sample_xy, failed_streak, notifyPc,
          output_state, record_state_events, arrivals, perf_counter, handed>>

putGhost == <<put_failures, producer_raised, error_marks>>
appGhost == <<renamed_with, write_failed, restore>>
monitorVars == <<monPc, permission_check_count, mon_current_time, mon_last_sentinel_time,
                 mon_wake, sample_xy, failed_streak>>
notifyVars == <<notifyPc, output_state, record_state_events, arrivals, perf_counter, handed>>
obsVars == <<obsPc, attempt, connect_log, sleeps, cfg_index, issued, cfg_failed>>
ctorVars == <<platform, ctor, use_fallback, thread_handle_error_detected,
              mouse_listener, keyboard_listener, smoke_capability_error, backend_error, second_recorder,
              obsVars, putGhost, appGhost, monitorVars, notifyVars>>
backendVars == <<mouse_running, keyboard_running, monitor_running>>
stopGhost == <<stop_calls, stop_done, stop_raised, stop_at>>
pauseGhost == <<pause_calls, resume_calls, late_calls>>
clockVars == <<now, current_time, last_sentinel_time, last_file_write_time, get_start>>
silenceGhost == <<last_arrival, gaps, sentinel_since_input, unsignalled_gap>>

----------------------------------------------------------------------------
\* Bounds of the model.
MaxOps == 4             \* environment inputs in one behaviour: input events, pause,
                        \* resume and stop calls, sentinels that fall due
MaxTime == 14           \* last tick of the clock
MaxMonitorTime == 6     \* last tick of the clock in sessions on the fallback monitor
MaxSlowInputs == 1      \* input events in a session whose writer is delayed
MaxNotifications == 2   \* state-change notifications the recorder sends

\* Time: one tick is the 0.5 s timeout of event_queue.get.
TicksPerUnit == 2
GetTimeout == 1
SentinelSeconds == 2
DirectSeconds == 5
SentinelWindow == SentinelSeconds * TicksPerUnit
\* MacOSInputMonitor: the give-up threshold, the sentinel period (time units)
\* and the loop's sleep (ticks).
max_permission_checks == 3
MonitorSentinelSeconds == 2
MonitorSleepTicks == 1
DirectWindow == DirectSeconds * TicksPerUnit

Platforms == {"Darwin", "Other"}
TestOutcomes == {"ok", "threadhandle", "typeerror", "error"}
InputKinds == {"move", "click", "scroll", "press", "release"}
FallbackMethods == {"macOS_fallback_due_to_pynput_error",
                    "macOS_fallback_due_to_permissions"}
NativeMethod == "pynput_listeners"
StopSteps == {"listeners", "metadata", "obs", "close", "save"}

\* One line of events.jsonl / one item of the queue.  id is the position of the
\* record in the put history (0 for a record written directly to the file).
Rec(a, i, m) == [action |-> a, id |-> i, method |-> m]
Direct(a) == Rec(a, 0, "")

Init ==
    /\ platform = "Other"
    /\ ctor = "none"
    /\ use_fallback = FALSE
    /\ thread_handle_error_detected = FALSE
    /\ macos_monitor = "unset"
    /\ mouse_listener = "unset"
    /\ keyboard_listener = "unset"
    /\ events_file = "unopened"
    /\ is_recording = FALSE
    /\ is_paused = FALSE
    /\ event_queue = <<>>
    /\ log = <<>>
    /\ capture_method = "unknown"
    /\ mouse_running = FALSE
    /\ keyboard_running = FALSE
    /\ monitor_running = FALSE
    /\ runPc = "unstarted"
    /\ stopPc = "idle"
    /\ obs_calls = <<>>
    /\ timings_added = FALSE
    /\ stopped_signals = 0
    /\ term_requested = FALSE
    /\ enqueued = <<>>
    /\ faulted = FALSE
    /\ smoke_capability_error = FALSE
    /\ backend_error = FALSE
    /\ renamed_with = "none"
    /\ write_failed = FALSE
    /\ restore = "none"
    /\ monPc = "unstarted"
    /\ permission_check_count = 0
    /\ mon_current_time = 0
    /\ mon_last_sentinel_time = 0
    /\ mon_wake = 0
    /\ sample_xy = <<0, 0>>
    /\ failed_streak = 0
    /\ notifyPc = "idle"
    /\ output_state = "none"
    /\ record_state_events = <<>>
    /\ arrivals = <<>>
    /\ perf_counter = 0
    /\ handed = <<>>
    /\ stop_calls = 0
    /\ stop_done = {}
    /\ stop_raised = {}
    /\ pause_calls = 0
    /\ resume_calls = 0
    /\ late_calls = 0
    /\ put_failures = 0
    /\ producer_raised = FALSE
    /\ error_marks = <<>>
    /\ obsPc = "idle"
    /\ attempt = 0
    /\ connect_log = <<>>
    /\ sleeps = 0
    /\ cfg_index = 1
    /\ issued = <<>>
    /\ cfg_failed = {}
    /\ deliveries = 0
    /\ now = 0
    /\ current_time = 0
    /\ last_sentinel_time = 0
    /\ last_file_write_time = 0
    /\ get_start = 0
    /\ last_arrival = 0
    /\ gaps = <<>>
    /\ sentinel_since_input = FALSE
    /\ unsignalled_gap = 0
    /\ stop_at = "none"
    /\ second_recorder = "none"

----------------------------------------------------------------------------
\* Recorder.__init__ (control thread, before any other thread exists).
\*   p      system()
\*   t1     outcome of the first pynput smoke test (Darwin only)
\*   perm   result of check_macos_permissions() (Darwin only)
\*   lc     outcome of constructing the two pynput listeners
\*   lt     outcome of the "Testing listeners..." smoke test

\* Flags after the Darwin block at the head of __init__.
InitDetected(p, t1) == p = "Darwin" /\ t1 = "threadhandle"
InitFallback(p, t1, perm) == p = "Darwin" /\ (t1 = "threadhandle" \/ ~perm)

\* The listener-creation block.  The result gives the flags and the attributes.
InitListeners(p, t1, perm, lc, lt) ==
    LET uf == InitFallback(p, t1, perm)
        det == InitDetected(p, t1)
        Fallback(u, d) == [uf |-> u, det |-> d, mon |-> "obj", ml |-> "None", kl |-> "None"]
    IN  IF p = "Darwin" /\ (uf \/ det)
        THEN Fallback(uf, det)
        ELSE IF lc = "error"
             THEN \* outer except: the listeners were never assigned
                  IF p = "Darwin"
                  THEN Fallback(TRUE, det)
                  ELSE [uf |-> uf, det |-> det, mon |-> "unset", ml |-> "unset", kl |-> "unset"]
             ELSE IF lt = "ok"
                  THEN [uf |-> uf, det |-> det, mon |-> "unset", ml |-> "obj", kl |-> "obj"]
                  ELSE IF lt = "threadhandle"
                       THEN \* inner except TypeError: no platform test here
                            Fallback(TRUE, TRUE)
                       ELSE \* re-raised to the outer except
                            IF p = "Darwin"
                            THEN Fallback(TRUE, det)
                            ELSE [uf |-> uf, det |-> det, mon |-> "unset", ml |-> "obj", kl |-> "obj"]

\* The else branch of the listener-creation block (the pynput listeners) is
\* taken.
ListenerBlockReached(p, t1, perm) ==
    ~(p = "Darwin" /\ (InitFallback(p, t1, perm) \/ InitDetected(p, t1)))

\* The "Testing listeners..." block is reached.
ListenerTestReached(p, t1, perm, lc) ==
    /\ ~(p = "Darwin" /\ (InitFallback(p, t1, perm) \/ InitDetected(p, t1)))
    /\ lc = "ok"

\* toggle_record, start branch: Recorder(...) then recorder_thread.start().
\* obs_ok: OBSClient(...) returned (FALSE: it raised, so Recorder() raised after
\* events.jsonl was opened, and toggle_record keeps no recorder).
toggle_record_start(p, t1, perm, obs_ok, lc, lt) ==
    /\ ctor = "none"
    /\ (p # "Darwin" => t1 = "ok" /\ perm)
    /\ platform' = p
    /\ events_file' = "open"
    /\ backend_error' =
           (/\ obs_ok
            /\ ListenerBlockReached(p, t1, perm)
            /\ (lc = "error" \/ (lc = "ok" /\ lt \in {"typeerror", "error"})))
    /\ smoke_capability_error' =
           (InitDetected(p, t1) \/ (obs_ok /\ ListenerTestReached(p, t1, perm, lc) /\ lt = "threadhandle"))
    /\ IF obs_ok
       THEN LET r == InitListeners(p, t1, perm, lc, lt)
            IN  /\ ctor' = "ok"
                /\ use_fallback' = r.uf
                /\ thread_handle_error_detected' = r.det
                /\ macos_monitor' = r.mon
                /\ mouse_listener' = r.ml
                /\ keyboard_listener' = r.kl
                /\ runPc' = "set_flag"
                /\ faulted' = (ListenerTestReached(p, t1, perm, lc) /\ lt \notin {"ok", "threadhandle"})
       ELSE /\ ctor' = "failed"
            /\ use_fallback' = InitFallback(p, t1, perm)
            /\ thread_handle_error_detected' = InitDetected(p, t1)
            /\ faulted' = TRUE
            /\ UNCHANGED <<macos_monitor, mouse_listener, keyboard_listener, runPc>>
    /\ UNCHANGED <<is_recording, is_paused, event_queue, log, capture_method, backendVars,
                   stopPc, obs_calls, timings_added, stopped_signals, term_requested,
                   enqueued, stopGhost, pauseGhost, deliveries, clockVars, silenceGhost,
                   second_recorder, obsVars, putGhost, appGhost, monitorVars, notifyVars>>


----------------------------------------------------------------------------
\* Recorder.run (the recorder thread).

\* run's choice of capture_method.
CaptureMethod ==
    IF platform = "Darwin" /\ (use_fallback \/ thread_handle_error_detected)
    THEN IF thread_handle_error_detected
         THEN "macOS_fallback_due_to_pynput_error"
         ELSE "macOS_fallback_due_to_permissions"
    ELSE IF mouse_listener = "obj" /\ keyboard_listener = "obj"
         THEN NativeMethod
         ELSE "none"

\* events_file.write + flush succeed only on an open file (a closed file raises
\* ValueError).
FileOpen == events_file = "open"

\* event_queue.put(record, block=False) on the unbounded Queue(): the record is
\* appended at the tail and given the next position of the put history.
PutRecord(q, a) == Append(q, Rec(a, Len(enqueued) + 1, ""))
PutHistory(a) == Append(enqueued, Rec(a, Len(enqueued) + 1, ""))

\* Maximum of two numbers.
Max(a, b) == IF a >= b THEN a ELSE b

\* event_queue.get: the item handed out and what stays in the queue.
QueueGetLIFO(q) == [item |-> q[Len(q)], rest |-> SubSeq(q, 1, Len(q) - 1)]
QueueGet(q) == [item |-> Head(q), rest |-> Tail(q)]

\* self._is_recording = True
run_set_flag ==
    /\ runPc = "set_flag"
    /\ is_recording' = TRUE
    /\ runPc' = "obs_start"
    /\ UNCHANGED <<ctorVars, macos_monitor, events_file, is_paused, event_queue, log,
                   capture_method, backendVars, stopPc, obs_calls, timings_added,
                   stopped_signals, term_requested, enqueued, faulted, stopGhost,
                   pauseGhost, deliveries, clockVars, silenceGhost>>

\* metadata_manager.collect(); obs_client.start_recording().  An exception here is
\* outside every try of run: the thread ends.
run_obs_start(ok) ==
    /\ runPc = "obs_start"
    /\ obs_calls' = Append(obs_calls, "start")
    /\ runPc' = IF ok THEN "write_started" ELSE "crashed"
    /\ faulted' = (faulted \/ ~ok)
    /\ UNCHANGED <<ctorVars, macos_monitor, events_file, is_recording, is_paused,
                   event_queue, log, capture_method, backendVars, stopPc, timings_added,
                   stopped_signals, term_requested, enqueued, stopGhost, pauseGhost,
                   deliveries, clockVars, silenceGhost>>

\* write + flush of the recording_started record (outside every try).
run_write_started ==
    /\ runPc = "write_started"
    /\ IF FileOpen
       THEN /\ log' = Append(log, Direct("recording_started"))
            /\ runPc' = "write_method"
       ELSE /\ runPc' = "crashed"
            /\ UNCHANGED log
    /\ UNCHANGED <<ctorVars, macos_monitor, events_file, is_recording, is_paused,
                   event_queue, capture_method, backendVars, stopPc, obs_calls,
                   timings_added, stopped_signals, term_requested, enqueued, faulted,
                   stopGhost, pauseGhost, deliveries, clockVars, silenceGhost>>

\* events_file.write(json.dumps(event) + "\n") on the file opened with "a":
\* the line goes to the end of the file.
WriteRecordAtFront(l, r) == <<r>> \o l
WriteRecord(l, r) == Append(l, r)

\* capture_method is chosen and the input_capture_method record written
\* (outside every try).
run_write_method ==
    /\ runPc = "write_method"
    /\ capture_method' = CaptureMethod
    /\ IF FileOpen
       THEN /\ log' = WriteRecord(log, Rec("input_capture_method", 0, CaptureMethod))
            /\ runPc' = "start_backend"
       ELSE /\ runPc' = "crashed"
            /\ UNCHANGED log
    /\ UNCHANGED <<ctorVars, macos_monitor, events_file, is_recording, is_paused,
                   event_queue, backendVars, stopPc, obs_calls, timings_added,
                   stopped_signals, term_requested, enqueued, faulted, stopGhost,
                   pauseGhost, deliveries, clockVars, silenceGhost>>

\* Outcomes of mouse_listener.start(); keyboard_listener.start():
\*   ok            both started and running
\*   notrunning    both returned, .running is False
\*   th_mouse      mouse_listener.start() raised the _ThreadHandle TypeError
\*   th_keyboard   keyboard_listener.start() raised it (the mouse listener runs)
\*   typeerror     another TypeError
\*   error         any other exception
StartOutcomes == {"ok", "notrunning", "th_mouse", "th_keyboard", "typeerror", "error"}

\* The recovery branch of run creates and starts a fallback monitor.
Recovers(so) ==
    /\ so \in {"th_mouse", "th_keyboard"}
    /\ platform = "Darwin"
    /\ macos_monitor = "unset"

\* The diagnostic record run writes after starting the backend ("" when none).
BackendRecord(so) ==
    IF capture_method \in FallbackMethods THEN "macos_fallback_monitor_started"
    ELSE IF capture_method = NativeMethod
         THEN IF so \in {"ok", "notrunning"} THEN "input_listeners_started"
              ELSE IF Recovers(so) THEN "recovered_with_fallback_monitor"
              ELSE ""
         ELSE "input_listeners_unavailable"

\* The backend start of run, with the diagnostic record that follows it.  An
\* exception other than TypeError (a failed write included) leaves the try of run.
run_start_backend(so) ==
    /\ runPc = "start_backend"
    /\ (capture_method # NativeMethod => so = "ok")
    /\ monitor_running' = IF capture_method \in FallbackMethods \/
                             (capture_method = NativeMethod /\ Recovers(so))
                          THEN TRUE ELSE monitor_running
    /\ macos_monitor' = IF capture_method = NativeMethod /\ Recovers(so)
                        THEN "obj" ELSE macos_monitor
    /\ mouse_running' = IF capture_method = NativeMethod /\ so \in {"ok", "th_keyboard"}
                        THEN TRUE ELSE mouse_running
    /\ keyboard_running' = IF capture_method = NativeMethod /\ so = "ok"
                           THEN TRUE ELSE keyboard_running
    /\ IF capture_method = NativeMethod /\ so = "error"
       THEN runPc' = "final" /\ UNCHANGED log
       ELSE IF BackendRecord(so) = ""
            THEN runPc' = "heartbeat" /\ UNCHANGED log
            ELSE IF FileOpen
                 THEN /\ log' = Append(log, Direct(BackendRecord(so)))
                      /\ runPc' = "heartbeat"
                 ELSE runPc' = "final" /\ UNCHANGED log
    /\ faulted' = (faulted \/ so # "ok")
    /\ last_arrival' = now
    /\ UNCHANGED <<ctorVars, events_file, is_recording, is_paused, event_queue,
                   capture_method, stopPc, obs_calls, timings_added, stopped_signals,
                   term_requested, enqueued, stopGhost, pauseGhost, deliveries,
                   clockVars, gaps, sentinel_since_input, unsignalled_gap>>

\* The heartbeat record, then last_sentinel_time = last_file_write_time = time.time().
run_heartbeat ==
    /\ runPc = "heartbeat"
    /\ IF FileOpen
       THEN /\ log' = Append(log, Direct("heartbeat"))
            /\ runPc' = "loop"
            /\ last_sentinel_time' = now
            /\ last_file_write_time' = now
       ELSE /\ runPc' = "final"
            /\ UNCHANGED <<log, last_sentinel_time, last_file_write_time>>
    /\ UNCHANGED <<ctorVars, macos_monitor, events_file, is_recording, is_paused,
                   event_queue, capture_method, backendVars, stopPc, obs_calls,
                   timings_added, stopped_signals, term_requested, enqueued, faulted,
                   stopGhost, pauseGhost, deliveries, now, current_time,
                   get_start, silenceGhost>>


\* Number of records of a sequence with a given action.
CountAction(seq, a) == Cardinality({i \in DOMAIN seq : seq[i].action = a})

\* Environment inputs consumed so far, and whether one more fits the bound.
Budget ==
    deliveries + pause_calls + resume_calls + stop_calls
        + CountAction(enqueued, "sentinel") + CountAction(log, "direct_sentinel")
MayInput == Budget < MaxOps

\* The two time tests of the writer loop, on run's locals.
DirectDueLate == now - last_file_write_time > DirectWindow + TicksPerUnit
DirectDue == now - last_file_write_time > DirectWindow
SentinelDueSinceArrival == current_time - last_arrival > SentinelWindow
SentinelDueLate == current_time - last_sentinel_time > SentinelWindow + TicksPerUnit
SentinelDue == current_time - last_sentinel_time > SentinelWindow

\* Head of one iteration of "while self._is_recording": the loop test,
\* current_time = time.time(), and the direct sentinel when `due`.  A failed
\* write is caught by the except of the loop body, which starts the next iteration.
run_loop_head(due) ==
    /\ runPc = "loop"
    /\ IF ~is_recording
       THEN /\ runPc' = "final"
            /\ UNCHANGED <<log, current_time, last_file_write_time, get_start,
                           sentinel_since_input>>
       ELSE /\ current_time' = now
            /\ IF due
               THEN IF FileOpen
                    THEN /\ log' = Append(log, Direct("direct_sentinel"))
                         /\ last_file_write_time' = now
                         /\ sentinel_since_input' = TRUE
                         /\ runPc' = "get"
                         /\ get_start' = now
                    ELSE /\ runPc' = "loop"
                         /\ UNCHANGED <<log, last_file_write_time, get_start,
                                        sentinel_since_input>>
               ELSE /\ runPc' = "get"
                    /\ get_start' = now
                    /\ UNCHANGED <<log, last_file_write_time, sentinel_since_input>>
    /\ UNCHANGED <<ctorVars, macos_monitor, events_file, is_recording, is_paused,
                   event_queue, capture_method, backendVars, stopPc, obs_calls,
                   timings_added, stopped_signals, term_requested, enqueued, faulted,
                   stopGhost, pauseGhost, deliveries, now, last_sentinel_time,
                   last_arrival, gaps, unsignalled_gap>>

\* event_queue.get(timeout=0.5) hands out an event: write, flush,
\* last_file_write_time = current_time.  On a failed write the event is lost and
\* the except of the loop body starts the next iteration.
run_get_event ==
    /\ runPc = "get"
    /\ event_queue # <<>>
    /\ LET g == QueueGet(event_queue)
       IN  /\ event_queue' = g.rest
           /\ IF FileOpen
              THEN /\ log' = Append(log, g.item)
                   /\ last_file_write_time' = current_time
                   /\ sentinel_since_input' =
                          IF g.item.action \in InputKinds THEN FALSE
                          ELSE IF g.item.action = "sentinel" THEN TRUE
                          ELSE sentinel_since_input
                   /\ unsignalled_gap' =
                          IF g.item.action \in InputKinds /\ ~sentinel_since_input
                          THEN Max(unsignalled_gap, gaps[g.item.id])
                          ELSE unsignalled_gap
              ELSE UNCHANGED <<log, last_file_write_time, sentinel_since_input,
                               unsignalled_gap>>
    /\ runPc' = "loop"
    /\ UNCHANGED <<ctorVars, macos_monitor, events_file, is_recording, is_paused,
                   capture_method, backendVars, stopPc, obs_calls, timings_added,
                   stopped_signals, term_requested, enqueued, faulted, stopGhost,
                   pauseGhost, deliveries, now, current_time, last_sentinel_time,
                   get_start, last_arrival, gaps>>

\* event_queue.get(timeout=0.5) hands out an event and events_file.write or
\* events_file.flush raises on the open file (OSError): the except of the loop
\* body logs it, sleeps 0.1 s and the loop goes on; the event is not put back.
\* kept: it was the flush that raised, and the line stays in the file object's
\* buffer, to come out with a later flush.
run_get_event_fails(kept) ==
    /\ runPc = "get"
    /\ event_queue # <<>>
    /\ FileOpen
    /\ ~write_failed
    /\ LET g == QueueGet(event_queue)
       IN  /\ event_queue' = g.rest
           /\ log' = IF kept THEN Append(log, g.item) ELSE log
    /\ write_failed' = TRUE
    /\ faulted' = TRUE
    /\ runPc' = "loop"
    /\ UNCHANGED <<platform, ctor, use_fallback, thread_handle_error_detected,
                   mouse_listener, keyboard_listener, smoke_capability_error, backend_error,
                   second_recorder, obsVars, putGhost, monitorVars, notifyVars, renamed_with, restore,
                   macos_monitor, events_file, is_recording, is_paused,
                   capture_method, backendVars, stopPc, obs_calls, timings_added,
                   stopped_signals, term_requested, enqueued, stopGhost,
                   pauseGhost, deliveries, clockVars, silenceGhost>>

\* event_queue.get(timeout=0.5) raises Empty: when `due`, a sentinel is put on
\* the queue and last_sentinel_time = current_time.
run_get_empty(due) ==
    /\ runPc = "get"
    /\ event_queue = <<>>
    /\ IF due
       THEN /\ event_queue' = PutRecord(event_queue, "sentinel")
            /\ enqueued' = PutHistory("sentinel")
            /\ gaps' = Append(gaps, 0)
            /\ last_sentinel_time' = current_time
       ELSE UNCHANGED <<event_queue, enqueued, gaps, last_sentinel_time>>
    /\ runPc' = "loop"
    /\ UNCHANGED <<ctorVars, macos_monitor, events_file, is_recording, is_paused, log,
                   capture_method, backendVars, stopPc, obs_calls, timings_added,
                   stopped_signals, term_requested, faulted, stopGhost, pauseGhost,
                   deliveries, now, current_time, last_file_write_time, get_start,
                   last_arrival, sentinel_since_input, unsignalled_gap>>

\* After the loop: the recording_ended record, in its own try.
run_final ==
    /\ runPc = "final"
    /\ log' = IF FileOpen THEN Append(log, Direct("recording_ended")) ELSE log
    /\ runPc' = "done"
    /\ UNCHANGED <<ctorVars, macos_monitor, events_file, is_recording, is_paused,
                   event_queue, capture_method, backendVars, stopPc, obs_calls,
                   timings_added, stopped_signals, term_requested, enqueued, faulted,
                   stopGhost, pauseGhost, deliveries, clockVars, silenceGhost>>

----------------------------------------------------------------------------
\* The producers: the pynput callbacks (listener threads) and macos_on_input
\* (fallback monitor thread).

\* "if not self._is_paused and self._is_recording" at the head of every handler.
CallbackGuardNoPause == is_recording
CallbackGuard == ~is_paused /\ is_recording

\* One invocation of a handler with an event of kind a.
Capture(a) ==
    /\ deliveries' = deliveries + 1
    /\ IF CallbackGuard
       THEN /\ event_queue' = PutRecord(event_queue, a)
            /\ enqueued' = PutHistory(a)
            /\ last_arrival' = now
            /\ gaps' = Append(gaps, now - last_arrival)
       ELSE UNCHANGED <<event_queue, enqueued, last_arrival, gaps>>
    /\ UNCHANGED <<ctorVars, macos_monitor, events_file, is_recording, is_paused, log,
                   capture_method, backendVars, runPc, stopPc, obs_calls, timings_added,
                   stopped_signals, term_requested, faulted, stopGhost, pauseGhost, clockVars, sentinel_since_input, unsignalled_gap>>

on_move == mouse_running /\ MayInput /\ Capture("move")
on_click == mouse_running /\ MayInput /\ Capture("click")
on_scroll == mouse_running /\ MayInput /\ Capture("scroll")
on_press == keyboard_running /\ MayInput /\ Capture("press")
on_release == keyboard_running /\ MayInput /\ Capture("release")

\* The listener threads invoke the handler of the event's kind.
Handler(a) ==
    CASE a = "move" -> on_move
      [] a = "click" -> on_click
      [] a = "scroll" -> on_scroll
      [] a = "press" -> on_press
      [] a = "release" -> on_release

\* MacOSInputMonitor._run_monitor reports a sampled position (event_type "move")
\* or its periodic sentinel through macos_on_input.
macos_on_input_move == monitor_running /\ MayInput /\ Capture("move")
macos_on_input_sentinel ==
    /\ monitor_running
    /\ MayInput
    /\ IF CallbackGuard
       THEN /\ event_queue' = PutRecord(event_queue, "sentinel")
            /\ enqueued' = PutHistory("sentinel")
            /\ gaps' = Append(gaps, 0)
       ELSE UNCHANGED <<event_queue, enqueued, gaps>>
    /\ UNCHANGED <<ctorVars, macos_monitor, events_file, is_recording, is_paused, log,
                   capture_method, backendVars, runPc, stopPc, obs_calls, timings_added,
                   stopped_signals, term_requested, faulted, stopGhost, pauseGhost,
                   deliveries, clockVars, last_arrival, sentinel_since_input,
                   unsignalled_gap>>


----------------------------------------------------------------------------
\* MacOSInputMonitor._run_monitor (the fallback monitor's thread) and
\* Recorder.macos_on_input as that thread calls it.

Origin == <<0, 0>>
SamplePositions == {<<0, 0>>, <<0, 1>>, <<-1, -1>>}

\* What one run of osascript comes to: a position on stdout, a nonzero return
\* code, no (or malformed) output, or an exception of subprocess.run or int().
SampleOutcomes == {"position", "returncode", "empty", "exception"}

\* _get_mouse_position: every outcome but a parsed position returns 0, 0; the
\* except of its try returns 0, 0 as well, so the call never raises.
get_mouse_position(out, pos) == IF out = "position" THEN pos ELSE Origin
SampleRaises(out) == FALSE

\* "if x > 0 or y > 0" before the monitor reports the position.
ReportedAlways(xy) == TRUE
Reported(xy) == xy[1] > 0 \/ xy[2] > 0

\* The "action" of the record macos_on_input builds: the move, click and
\* sentinel branches, and the else branch with "action": event_type.
MacosRecordAction(event_type, xy) ==
    IF event_type = "move" /\ (xy[1] > 0 \/ xy[2] > 0) THEN "move"
    ELSE IF event_type = "click" THEN "click"
    ELSE IF event_type = "sentinel" THEN "sentinel"
    ELSE event_type

\* One call of macos_on_input on the monitor's thread: under the handlers'
\* guard the record is put on the queue, else nothing happens.  (A polled
\* position is no arrival of an input event: its gap is 0.)
MacosOnInput(event_type, xy) ==
    /\ MayInput
    /\ deliveries' = IF event_type = "sentinel" THEN deliveries ELSE deliveries + 1
    /\ IF CallbackGuard
       THEN LET a == MacosRecordAction(event_type, xy)
            IN  /\ event_queue' = PutRecord(event_queue, a)
                /\ enqueued' = PutHistory(a)
                /\ gaps' = Append(gaps, 0)
                /\ UNCHANGED last_arrival
       ELSE UNCHANGED <<event_queue, enqueued, last_arrival, gaps>>

\* What the monitor's thread leaves alone.
monitorFrame == <<platform, ctor, use_fallback, thread_handle_error_detected,
                  mouse_listener, keyboard_listener, smoke_capability_error, backend_error,
                  second_recorder, obsVars, putGhost, appGhost, notifyVars, macos_monitor,
                  events_file,
                  is_recording, is_paused, log, capture_method, backendVars, runPc, stopPc,
                  obs_calls, timings_added, stopped_signals, term_requested, faulted,
                  stopGhost, pauseGhost, clockVars, sentinel_since_input, unsignalled_gap>>

\* The thread started by MacOSInputMonitor.start() begins:
\* last_sentinel_time = time.time().
monitor_begin ==
    /\ monPc = "unstarted"
    /\ monitor_running
    /\ mon_last_sentinel_time' = now
    /\ monPc' = "head"
    /\ UNCHANGED <<monitorFrame, permission_check_count, mon_current_time, mon_wake,
                   sample_xy, failed_streak, event_queue, enqueued, last_arrival, gaps,
                   deliveries>>

\* "while self.running", current_time = time.time(), and the sampling block:
\* under permission_check_count < max_permission_checks a sample is taken and a
\* position that passes the test is reported with event_type "move"; the count
\* goes up only in the except of the block.
monitor_sample(out, pos) ==
    /\ monPc = "head"
    /\ now >= mon_wake
    /\ IF ~monitor_running
       THEN /\ monPc' = "ended"
            /\ UNCHANGED <<permission_check_count, mon_current_time, sample_xy,
                           failed_streak, event_queue, enqueued, last_arrival, gaps,
                           deliveries>>
       ELSE /\ monPc' = "period"
            /\ mon_current_time' = now
            /\ IF permission_check_count < max_permission_checks
               THEN LET xy == get_mouse_position(out, pos)
                    IN  /\ sample_xy' = xy
                        /\ failed_streak' =
                               IF out = "position" THEN 0
                               ELSE IF failed_streak > max_permission_checks
                                    THEN failed_streak
                                    ELSE failed_streak + 1
                        /\ permission_check_count' =
                               IF SampleRaises(out) THEN permission_check_count + 1
                               ELSE permission_check_count
                        /\ IF Reported(xy) /\ ~SampleRaises(out)
                           THEN MacosOnInput("move", xy)
                           ELSE UNCHANGED <<event_queue, enqueued, last_arrival, gaps,
                                            deliveries>>
               ELSE UNCHANGED <<permission_check_count, sample_xy, failed_streak,
                                event_queue, enqueued, last_arrival, gaps, deliveries>>
    /\ UNCHANGED <<monitorFrame, mon_last_sentinel_time, mon_wake>>

\* "if current_time - last_sentinel_time > 2"
MonitorSentinelDueOnSample ==
    /\ mon_current_time - mon_last_sentinel_time > MonitorSentinelSeconds * TicksPerUnit
    /\ Reported(sample_xy)
MonitorSentinelDue ==
    mon_current_time - mon_last_sentinel_time > MonitorSentinelSeconds * TicksPerUnit

\* The period test: when due, on_click(0, 0, None, None, event_type="sentinel")
\* and last_sentinel_time = current_time; then time.sleep(0.5).
monitor_sentinel ==
    /\ monPc = "period"
    /\ IF MonitorSentinelDue
       THEN /\ MacosOnInput("sentinel", Origin)
            /\ mon_last_sentinel_time' = mon_current_time
       ELSE UNCHANGED <<mon_last_sentinel_time, event_queue, enqueued, last_arrival,
                        gaps, deliveries>>
    /\ mon_wake' = now + MonitorSleepTicks
    /\ monPc' = "head"
    /\ UNCHANGED <<monitorFrame, permission_check_count, mon_current_time, sample_xy,
                   failed_streak>>

\* Time passes while the monitor sleeps.
MonitorTick ==
    /\ monPc = "head"
    /\ now < mon_wake
    /\ now < MaxMonitorTime
    /\ now' = now + 1
    /\ UNCHANGED <<ctorVars, macos_monitor, events_file, is_recording, is_paused,
                   event_queue, log, capture_method, backendVars, runPc, stopPc,
                   obs_calls, timings_added, stopped_signals, term_requested, enqueued,
                   faulted, stopGhost, pauseGhost, deliveries, current_time,
                   last_sentinel_time, last_file_write_time, get_start, silenceGhost>>

----------------------------------------------------------------------------
\* The control thread: pause_recording, resume_recording, stop_recording and
\* toggle_record's terminate().  One operation is in flight at a time, and none
\* is called once the application has dropped the recorder (after terminate).

ControlIdle == ctor = "ok" /\ stopPc = "idle" /\ ~term_requested

\* 1 for a call made after the effective stop_recording, else 0.
LateCall == IF stop_at # "none" THEN 1 ELSE 0

\* "if not self._is_paused and self._is_recording"
PauseGuardAnyState == ~is_paused
PauseGuard == ~is_paused /\ is_recording

\* "if self._is_paused and self._is_recording"
ResumeGuardAnyState == is_recording
ResumeGuardPausedOnly == is_paused
ResumeGuard == is_paused /\ is_recording

\* pause_recording: the flag, the client call, then the put.  ok = FALSE: the
\* client's pause_record raised, and the exception leaves pause_recording before
\* the put.
pause_recording(ok) ==
    /\ ControlIdle
    /\ MayInput
    /\ pause_calls' = pause_calls + 1
    /\ late_calls' = late_calls + LateCall
    /\ IF PauseGuard
       THEN /\ is_paused' = TRUE
            /\ obs_calls' = Append(obs_calls, "pause")
            /\ faulted' = (faulted \/ ~ok)
            /\ IF ok
               THEN /\ event_queue' = PutRecord(event_queue, "pause")
                    /\ enqueued' = PutHistory("pause")
                    /\ gaps' = Append(gaps, 0)
               ELSE UNCHANGED <<event_queue, enqueued, gaps>>
       ELSE /\ ok
            /\ UNCHANGED <<is_paused, obs_calls, faulted, event_queue,
                           enqueued, gaps>>
    /\ UNCHANGED <<ctorVars, macos_monitor, events_file, is_recording, log,
                   capture_method, backendVars, runPc, stopPc, timings_added,
                   stopped_signals, term_requested, stopGhost, resume_calls,
                   deliveries, clockVars, last_arrival, sentinel_since_input,
                   unsignalled_gap>>

\* resume_recording, the mirror of pause_recording.
resume_recording(ok) ==
    /\ ControlIdle
    /\ MayInput
    /\ resume_calls' = resume_calls + 1
    /\ late_calls' = late_calls + LateCall
    /\ IF ResumeGuard
       THEN /\ is_paused' = FALSE
            /\ obs_calls' = Append(obs_calls, "resume")
            /\ faulted' = (faulted \/ ~ok)
            /\ IF ok
               THEN /\ event_queue' = PutRecord(event_queue, "resume")
                    /\ enqueued' = PutHistory("resume")
                    /\ gaps' = Append(gaps, 0)
               ELSE UNCHANGED <<event_queue, enqueued, gaps>>
       ELSE /\ ok
            /\ UNCHANGED <<is_paused, obs_calls, faulted, event_queue,
                           enqueued, gaps>>
    /\ UNCHANGED <<ctorVars, macos_monitor, events_file, is_recording, log,
                   capture_method, backendVars, runPc, stopPc, timings_added,
                   stopped_signals, term_requested, stopGhost, pause_calls,
                   deliveries, clockVars, last_arrival, sentinel_since_input,
                   unsignalled_gap>>

\* The step of stop_recording that follows `step`.  Every step has its own
\* try/except, so an exception (raised) changes nothing.
StopAfterAbort(step, raised) ==
    IF raised THEN "emit"
    ELSE CASE step = "listeners" -> "metadata"
           [] step = "metadata" -> "obs"
           [] step = "obs" -> "close"
           [] step = "close" -> "save"
           [] step = "save" -> "emit"
StopAfterCloseFirst(step, raised) ==
    CASE step = "listeners" -> "metadata"
      [] step = "metadata" -> "close"
      [] step = "close" -> "obs"
      [] step = "obs" -> "save"
      [] step = "save" -> "emit"
StopAfter(step, raised) ==
    CASE step = "listeners" -> "metadata"
      [] step = "metadata" -> "obs"
      [] step = "obs" -> "close"
      [] step = "close" -> "save"
      [] step = "save" -> "emit"

\* "if self._is_recording: self._is_recording = False", else nothing at all.
stop_recording_begin ==
    /\ ControlIdle
    /\ MayInput
    /\ stop_calls' = stop_calls + 1
    /\ late_calls' = late_calls + LateCall
    /\ IF is_recording
       THEN /\ is_recording' = FALSE
            /\ stopPc' = "listeners"
            /\ stop_at' = runPc
       ELSE UNCHANGED <<is_recording, stopPc, stop_at>>
    /\ UNCHANGED <<ctorVars, macos_monitor, events_file, is_paused, event_queue, log,
                   capture_method, backendVars, runPc, obs_calls, timings_added,
                   stopped_signals, term_requested, enqueued, faulted, stop_done,
                   stop_raised, pause_calls, resume_calls, deliveries, clockVars,
                   silenceGhost>>

\* The fallback monitor is the backend stop_recording stops.
StopsMonitor == platform = "Darwin" /\ use_fallback /\ macos_monitor = "obj"

\* Sets of teardown steps executed and raised, as the steps go by.
Executed(steps) == stop_done \cup steps
Raised(step, raised) == IF raised THEN {step} ELSE {}

\* time.sleep(0.5), then the listeners: macos_monitor.stop() (running = False
\* comes first in it), or stop() of each listener that is running; then
\* metadata_manager.end_collect() in its own try (it touches nothing another
\* thread reads, so the two tries are one step here).
\* MacOSInputMonitor.stop: running = False, then, when start() had created
\* the thread, monitor_thread.join(timeout=1.0), which returns when the thread
\* has ended or the timeout has passed, whichever comes first.
JoinWaitsForThread == ~monitor_running \/ monPc = "ended"
JoinReturns == TRUE

stop_listeners(raised, raised_md) ==
    /\ stopPc = "listeners"
    /\ (StopsMonitor => JoinReturns)
    /\ (raised => (StopsMonitor \/ mouse_running \/ keyboard_running))
    /\ IF StopsMonitor
       THEN /\ monitor_running' = FALSE
            /\ UNCHANGED <<mouse_running, keyboard_running>>
       ELSE IF raised
            THEN UNCHANGED backendVars
            ELSE /\ mouse_running' = FALSE
                 /\ keyboard_running' = FALSE
                 /\ UNCHANGED monitor_running
    /\ LET next == StopAfter("listeners", raised)
       IN  IF next = "metadata"
           THEN /\ stop_done' = Executed({"listeners", "metadata"})
                /\ stop_raised' = stop_raised \cup Raised("listeners", raised)
                                              \cup Raised("metadata", raised_md)
                /\ stopPc' = StopAfter("metadata", raised_md)
           ELSE /\ stop_done' = Executed({"listeners"})
                /\ stop_raised' = stop_raised \cup Raised("listeners", raised)
                /\ stopPc' = next
    /\ faulted' = (faulted \/ raised \/ raised_md)
    /\ UNCHANGED <<ctorVars, macos_monitor, events_file, is_recording, is_paused,
                   event_queue, log, capture_method, runPc, obs_calls, timings_added,
                   stopped_signals, term_requested, enqueued, stop_calls, stop_at, pauseGhost,
                   deliveries, clockVars, silenceGhost>>

\* obs_client.stop_recording(), then add_obs_record_state_timings (same try).
stop_obs(raised) ==
    /\ stopPc = "obs"
    /\ obs_calls' = Append(obs_calls, "stop")
    /\ timings_added' = ~raised
    /\ stop_done' = Executed({"obs"})
    /\ stop_raised' = stop_raised \cup Raised("obs", raised)
    /\ faulted' = (faulted \/ raised)
    /\ stopPc' = StopAfter("obs", raised)
    /\ UNCHANGED <<ctorVars, macos_monitor, events_file, is_recording, is_paused,
                   event_queue, log, capture_method, backendVars, runPc,
                   stopped_signals, term_requested, enqueued, stop_calls, stop_at, pauseGhost,
                   deliveries, clockVars, silenceGhost>>

\* events_file.flush(); events_file.close() (same try: a flush that raises
\* leaves the file open).
stop_close(raised) ==
    /\ stopPc = "close"
    /\ events_file' = IF raised THEN events_file ELSE "closed"
    /\ stop_done' = Executed({"close"})
    /\ stop_raised' = stop_raised \cup Raised("close", raised)
    /\ faulted' = (faulted \/ raised)
    /\ stopPc' = StopAfter("close", raised)
    /\ UNCHANGED <<ctorVars, macos_monitor, is_recording, is_paused, event_queue, log,
                   capture_method, backendVars, runPc, obs_calls, timings_added,
                   stopped_signals, term_requested, enqueued, stop_calls, stop_at, pauseGhost,
                   deliveries, clockVars, silenceGhost>>

\* metadata_manager.save_metadata() in its own try, then
\* self.recording_stopped.emit() and stop_recording returns.  The except of the
\* outer try emits too; it is reached only by an exception of the steps' own
\* excepts, which the steps here do not raise.
stop_save(raised) ==
    /\ stopPc \in {"save", "emit"}
    /\ stop_done' = IF stopPc = "save" THEN Executed({"save"}) ELSE stop_done
    /\ stop_raised' = IF stopPc = "save" THEN stop_raised \cup Raised("save", raised)
                      ELSE stop_raised
    /\ (stopPc = "emit" => ~raised)
    /\ faulted' = (faulted \/ raised)
    /\ stopped_signals' = stopped_signals + 1
    /\ stopPc' = "idle"
    /\ UNCHANGED <<ctorVars, macos_monitor, events_file, is_recording, is_paused,
                   event_queue, log, capture_method, backendVars, runPc, obs_calls,
                   timings_added, term_requested, enqueued, stop_calls, stop_at, pauseGhost,
                   deliveries, clockVars, silenceGhost>>

\* toggle_record, stop branch, after stop_recording returned:
\* self.recorder_thread.terminate(); del self.recorder_thread.
terminate ==
    /\ ControlIdle
    /\ stop_calls > 0
    /\ term_requested' = TRUE
    /\ UNCHANGED <<ctorVars, macos_monitor, events_file, is_recording, is_paused,
                   event_queue, log, capture_method, backendVars, runPc, stopPc,
                   obs_calls, timings_added, stopped_signals, enqueued, faulted,
                   stopGhost, pauseGhost, deliveries, clockVars, silenceGhost>>

\* QThread.terminate() takes effect: the recorder thread is killed wherever it is
\* ("may or may not be terminated immediately").
thread_killed ==
    /\ term_requested
    /\ runPc \notin {"unstarted", "done", "crashed", "killed"}
    /\ runPc' = "killed"
    /\ UNCHANGED <<ctorVars, macos_monitor, events_file, is_recording, is_paused,
                   event_queue, log, capture_method, backendVars, stopPc, obs_calls,
                   timings_added, stopped_signals, term_requested, enqueued, faulted,
                   stopGhost, pauseGhost, deliveries, clockVars, silenceGhost>>

\* toggle_record, stop branch, after del self.recorder_thread: the dialog was
\* accepted and os.rename(recording_dir, renamed_dir) moves the session directory,
\* events.jsonl in whatever state it is.
rename_directory ==
    /\ term_requested
    /\ renamed_with = "none"
    /\ renamed_with' = events_file
    /\ UNCHANGED <<platform, ctor, use_fallback, thread_handle_error_detected,
                   mouse_listener, keyboard_listener, smoke_capability_error, backend_error,
                   second_recorder, obsVars, putGhost, monitorVars, notifyVars, write_failed, restore,
                   macos_monitor, events_file, is_recording, is_paused, event_queue,
                   log, capture_method, backendVars, runPc, stopPc, obs_calls,
                   timings_added, stopped_signals, term_requested, enqueued, faulted,
                   stopGhost, pauseGhost, deliveries, clockVars, silenceGhost>>

\* toggle_record, stop branch: one stop_recording call on the recorder the
\* application holds (terminate and del follow it).
toggle_record_stop ==
    /\ stop_calls = 0
    /\ stop_recording_begin

\* toggle_pause: resume_recording when the recorder's _is_paused is set, else
\* pause_recording.
toggle_pause(ok) ==
    /\ stop_calls = 0
    /\ IF is_paused THEN resume_recording(ok) ELSE pause_recording(ok)

\* toggle_record once more, when the application holds no recorder_thread (the
\* earlier Recorder() raised, or the stop branch deleted the attribute): the start
\* branch creates the next Recorder.
toggle_record_again ==
    /\ second_recorder = "none"
    /\ ctor = "failed" \/ term_requested
    /\ second_recorder' = IF is_recording THEN "while_active" ELSE "after_stop"
    /\ UNCHANGED <<platform, ctor, use_fallback, thread_handle_error_detected,
                   mouse_listener, keyboard_listener, smoke_capability_error, backend_error,
                   appGhost, monitorVars, notifyVars,
                   macos_monitor, events_file, is_recording, is_paused, event_queue,
                   log, capture_method, backendVars, runPc, stopPc, obs_calls,
                   timings_added, stopped_signals, term_requested, enqueued, faulted,
                   stopGhost, pauseGhost, deliveries, clockVars, silenceGhost, obsVars,
                   putGhost>>

----------------------------------------------------------------------------
\* A put that raises.  event_queue is the unbounded Queue(), so put(block=False)
\* never raises Full; what can make it raise is the allocation of the new item
\* (MemoryError).

\* The handler of an event of kind a runs (on a listener thread or through the
\* fallback monitor).
HandlerRuns(a) ==
    IF a \in {"move", "click", "scroll"}
    THEN mouse_running \/ monitor_running
    ELSE keyboard_running

\* A handler whose put raises: the except of the handler logs the exception.
handler_put_fails(a) ==
    /\ HandlerRuns(a)
    /\ MayInput
    /\ CallbackGuard
    /\ deliveries' = deliveries + 1
    /\ put_failures' = put_failures + 1
    /\ UNCHANGED <<platform, ctor, use_fallback, thread_handle_error_detected,
                   mouse_listener, keyboard_listener, smoke_capability_error, backend_error,
                   appGhost, monitorVars, notifyVars,
                   second_recorder, obsVars, producer_raised, error_marks, macos_monitor,
                   events_file,
                   is_recording, is_paused, event_queue, log, capture_method,
                   backendVars, runPc, stopPc, obs_calls, timings_added, stopped_signals,
                   term_requested, enqueued, faulted, stopGhost, pauseGhost, clockVars,
                   silenceGhost>>

\* The writer's sentinel put raises: the except of the loop body logs the
\* exception and the loop goes on, last_sentinel_time as it was.
sentinel_put_fails ==
    /\ runPc = "get"
    /\ event_queue = <<>>
    /\ put_failures < MaxOps
    /\ put_failures' = put_failures + 1
    /\ runPc' = "loop"
    /\ UNCHANGED <<platform, ctor, use_fallback, thread_handle_error_detected,
                   mouse_listener, keyboard_listener, smoke_capability_error, backend_error,
                   appGhost, monitorVars, notifyVars,
                   second_recorder, obsVars, producer_raised, error_marks, macos_monitor,
                   events_file,
                   is_recording, is_paused, event_queue, log, capture_method,
                   backendVars, stopPc, obs_calls, timings_added, stopped_signals,
                   term_requested, enqueued, faulted, stopGhost, pauseGhost, deliveries,
                   clockVars, silenceGhost>>

\* pause_recording (paused = TRUE) or resume_recording (paused = FALSE) whose put
\* raises: the flag is set and the client call made, and the exception leaves the
\* method, which has no try.
control_put_fails(paused) ==
    /\ ControlIdle
    /\ MayInput
    /\ IF paused THEN PauseGuard ELSE ResumeGuard
    /\ pause_calls' = IF paused THEN pause_calls + 1 ELSE pause_calls
    /\ resume_calls' = IF paused THEN resume_calls ELSE resume_calls + 1
    /\ is_paused' = paused
    /\ obs_calls' = Append(obs_calls, IF paused THEN "pause" ELSE "resume")
    /\ put_failures' = put_failures + 1
    /\ producer_raised' = TRUE
    /\ UNCHANGED <<platform, ctor, use_fallback, thread_handle_error_detected,
                   mouse_listener, keyboard_listener, smoke_capability_error, backend_error,
                   appGhost, monitorVars, notifyVars,
                   second_recorder, obsVars, macos_monitor, events_file, is_recording,
                   event_queue, log, capture_method, backendVars, runPc, stopPc,
                   timings_added, stopped_signals, term_requested, enqueued, faulted,
                   stopGhost, late_calls, deliveries, clockVars, silenceGhost,
                   error_marks>>

\* The body of every handler is one try whose except logs the exception: an
\* exception raised while the event is built (button.name, key.char, key.name)
\* stays in the handler.
CaptureErrorEscapes == FALSE
CaptureErrorCaught == TRUE

\* A handler that raises while it builds the event of kind a.  An exception
\* that left the handler would end the listener thread that called it.
handler_capture_fails(a) ==
    /\ HandlerRuns(a)
    /\ MayInput
    /\ CallbackGuard
    /\ deliveries' = deliveries + 1
    /\ error_marks' = Append(error_marks, Len(enqueued))
    /\ IF CaptureErrorCaught
       THEN UNCHANGED backendVars
       ELSE /\ mouse_running' = (mouse_running /\ a \notin {"move", "click", "scroll"})
            /\ keyboard_running' = (keyboard_running /\ a \in {"move", "click", "scroll"})
            /\ UNCHANGED monitor_running
    /\ UNCHANGED <<platform, ctor, use_fallback, thread_handle_error_detected,
                   mouse_listener, keyboard_listener, smoke_capability_error, backend_error,
                   appGhost, monitorVars, notifyVars,
                   second_recorder, obsVars, put_failures, producer_raised,
                   macos_monitor, events_file, is_recording, is_paused, event_queue,
                   log, capture_method, runPc, stopPc, obs_calls, timings_added,
                   stopped_signals, term_requested, enqueued, faulted, stopGhost,
                   pauseGhost, clockVars, silenceGhost>>

----------------------------------------------------------------------------
\* OBSClient.__init__ (src/ducktrack/obs_client.py): the connection retry loop
\* and the configuration sequence.

\* Every variable outside OBSClient.__init__.
recorderVars == <<platform, ctor, use_fallback, thread_handle_error_detected,
                  mouse_listener, keyboard_listener, smoke_capability_error, backend_error,
                  appGhost, monitorVars, notifyVars,
                  second_recorder, macos_monitor, events_file, is_recording, is_paused,
                  event_queue, log, capture_method, backendVars, runPc, stopPc,
                  obs_calls, timings_added, stopped_signals, term_requested, enqueued,
                  faulted, stopGhost, pauseGhost, deliveries, clockVars, silenceGhost,
                  putGhost>>

max_retries == 3

\* Outcomes of one connection attempt: both clients built, obs.ReqClient()
\* raised, or obs.EventClient() raised after ReqClient was built.
ConnectOutcomes == {"ok", "req_error", "event_error"}

\* "if attempt < max_retries - 1": sleep and try again, else raise.
RetryNever(a) == FALSE
RetryAgain(a) == a < max_retries - 1

\* OBSClient(...) is called.
OBSClient_init ==
    /\ obsPc = "idle"
    /\ obsPc' = "connect"
    /\ UNCHANGED <<recorderVars, attempt, connect_log, sleeps, cfg_index, issued,
                   cfg_failed>>

\* One iteration of "for attempt in range(max_retries)": the try with the two
\* client constructors, break on success, the except on failure.
obs_connect(out) ==
    /\ obsPc = "connect"
    /\ connect_log' = Append(connect_log, out)
    /\ obsPc' = IF out = "ok" THEN "configure"
                ELSE IF RetryAgain(attempt) THEN "sleep" ELSE "raised"
    /\ UNCHANGED <<recorderVars, attempt, sleeps, cfg_index, issued, cfg_failed>>

\* time.sleep(2) in the except, then the next value of the loop variable.
obs_retry_sleep ==
    /\ obsPc = "sleep"
    /\ sleeps' = sleeps + 1
    /\ attempt' = attempt + 1
    /\ obsPc' = "connect"
    /\ UNCHANGED <<recorderVars, connect_log, cfg_index, issued, cfg_failed>>

\* The requests of the configuration sequence, in the order of the code:
\* get_version, get_profile_list (old_profile), the profile block
\* (get_profile_list, create_profile, set_current_profile), the sixteen
\* set_profile_parameter calls and set_input_mute("Mic/Aux").
ParameterSteps == <<"BaseCX", "BaseCY", "OutputCX", "OutputCY", "ScaleType",
                    "RescaleRes", "RecRescaleRes", "FFRescaleRes",
                    "FPSCommon", "FPSInt", "FPSNum", "FPSDen",
                    "RecFormat2", "VBitrate", "RecQuality", "FilePath">>
ConfigSteps == <<"get_version", "get_profile_list", "profile">> \o ParameterSteps
                   \o <<"Mic/Aux">>

\* Outcomes of one request: it returns, it raises OBSSDKRequestError, or it
\* raises another exception (a timeout, a dropped connection).
RequestOutcomes == {"ok", "request_error", "other_error"}

\* What the try blocks do with an exception of a step: "continue" with the next
\* step (the step's own try caught it), "abort" the rest of the sequence (the
\* outer "except OBSSDKRequestError" caught it; __init__ returns), or "raise"
\* out of __init__.
OnError(step, out) ==
    IF step = "get_version" THEN "continue"
    ELSE IF out = "other_error" THEN "raise"
    ELSE IF step \in {"profile", "Mic/Aux"} THEN "continue"
    ELSE "abort"

\* One request of the configuration sequence.
obs_configure(out) ==
    /\ obsPc = "configure"
    /\ LET step == ConfigSteps[cfg_index]
           after == IF out = "ok" THEN "continue" ELSE OnError(step, out)
       IN  /\ issued' = Append(issued, step)
           /\ cfg_failed' = IF out = "ok" THEN cfg_failed ELSE cfg_failed \cup {step}
           /\ IF after = "continue" /\ cfg_index < Len(ConfigSteps)
              THEN cfg_index' = cfg_index + 1 /\ UNCHANGED obsPc
              ELSE /\ obsPc' = IF after = "raise" THEN "raised" ELSE "done"
                   /\ UNCHANGED cfg_index
    /\ UNCHANGED <<recorderVars, attempt, connect_log, sleeps>>

\* self.old_profile was assigned: the constructor's get_profile_list request
\* for it was issued and returned.
OldProfileCaptured ==
    /\ \E k \in DOMAIN issued : issued[k] = "get_profile_list"
    /\ "get_profile_list" \notin cfg_failed

\* OBSClient.stop_recording raises: stop_record raised, or the restore raised
\* something that "except OBSSDKRequestError" does not catch.
ClientStopRaises(out1, out2) ==
    out1 # "ok" \/ (OldProfileCaptured /\ out2 = "other_error")

\* The obs step of Recorder.stop_recording with the client's stop spelled out:
\* stop_record (outcome out1), then, under hasattr(self, 'old_profile'),
\* set_current_profile(old_profile) (outcome out2) in its try; back in the
\* recorder, add_obs_record_state_timings when the client's stop returned.
stop_obs_restore(out1, out2) ==
    /\ stopPc = "obs"
    /\ (out1 # "ok" \/ ~OldProfileCaptured) => out2 = "ok"
    /\ LET raised == ClientStopRaises(out1, out2)
       IN  /\ obs_calls' = Append(obs_calls, "stop")
           /\ restore' = IF out1 # "ok" THEN "not_reached"
                         ELSE IF ~OldProfileCaptured THEN "skipped"
                         ELSE out2
           /\ timings_added' = ~raised
           /\ stop_done' = Executed({"obs"})
           /\ stop_raised' = stop_raised \cup Raised("obs", raised)
           /\ faulted' = (faulted \/ raised \/ out2 # "ok")
           /\ stopPc' = StopAfter("obs", raised)
    /\ UNCHANGED <<platform, ctor, use_fallback, thread_handle_error_detected,
                   mouse_listener, keyboard_listener, smoke_capability_error, backend_error,
                   second_recorder, obsVars, putGhost, monitorVars, notifyVars, renamed_with,
                   write_failed,
                   macos_monitor, events_file, is_recording, is_paused,
                   event_queue, log, capture_method, backendVars, runPc,
                   stopped_signals, term_requested, enqueued, stop_calls, stop_at,
                   pauseGhost, deliveries, clockVars, silenceGhost>>

NextObs ==
    \/ OBSClient_init
    \/ \E out \in ConnectOutcomes : obs_connect(out)
    \/ obs_retry_sleep
    \/ \E out \in RequestOutcomes : obs_configure(out)

\* The constructor runs on: none of its steps blocks for ever.
SpecObs == Init /\ [][NextObs]_vars /\ WF_vars(NextObs)

----------------------------------------------------------------------------
\* The session with time abstracted: each time test of the writer loop may come
\* out either way.

\* Construction and start, up to the heartbeat record.  The parameters are the
\* sets the environment's answers are drawn from: platforms, first smoke test,
\* permission check, OBSClient construction, listener construction, listener
\* smoke test, the client's answer to start (TRUE: returned) and the outcomes of
\* starting the listeners.
Startup(P, T1, PERM, OBS, LC, LT, CLIENT, SO) ==
    \/ \E p \in P, t1 \in T1, perm \in PERM, obs_ok \in OBS, lc \in LC, lt \in LT :
          toggle_record_start(p, t1, perm, obs_ok, lc, lt)
    \/ run_set_flag
    \/ \E ok \in CLIENT : run_obs_start(ok)
    \/ run_write_started
    \/ run_write_method
    \/ \E so \in SO : run_start_backend(so)
    \/ run_heartbeat

\* The writer loop of run, each time test coming out either way.
WriterLoop ==
    \/ \E due \in BOOLEAN :
          /\ due => MayInput
          /\ run_loop_head(due)
    \/ run_get_event
    \/ \E due \in BOOLEAN :
          /\ due => MayInput
          /\ run_get_empty(due)

\* stop_recording on the control thread and the end of run.  RAISED: whether a
\* teardown step raises.
Teardown(RAISED) ==
    \/ stop_recording_begin
    \/ \E raised \in RAISED, raised_md \in RAISED : stop_listeners(raised, raised_md)
    \/ \E raised \in RAISED : stop_obs(raised)
    \/ \E raised \in RAISED : stop_close(raised)
    \/ \E raised \in RAISED : stop_save(raised)
    \/ run_final

\* The steps of the session's lifecycle.
Lifecycle(P, T1, PERM, OBS, LC, LT, CLIENT, SO, RAISED) ==
    \/ Startup(P, T1, PERM, OBS, LC, LT, CLIENT, SO)
    \/ WriterLoop
    \/ Teardown(RAISED)

\* The producers' steps, for input events of the kinds in KINDS.
Producers(KINDS) ==
    \/ \E a \in KINDS : Handler(a)
    \/ macos_on_input_move
    \/ macos_on_input_sentinel

\* The control thread's pause and resume calls.
PauseOps(CLIENT) ==
    \/ \E ok \in CLIENT : pause_recording(ok)
    \/ \E ok \in CLIENT : resume_recording(ok)

\* Sessions in which every collaborator answers: the permission check is the
\* only thing that varies at construction (native listeners or the fallback).
Next ==
    \/ Lifecycle({"Darwin"}, {"ok"}, BOOLEAN, {TRUE}, {"ok"}, {"ok"}, {TRUE}, {"ok"}, {FALSE})
    \/ Producers(InputKinds)
    \/ PauseOps({TRUE})

Spec == Init /\ [][Next]_vars


\* Sessions in which construction and start may fail in every way the code
\* distinguishes: each outcome of the smoke tests, of the permission check, of
\* building the client and the listeners, of the client's start call and of
\* starting the listeners.
NextStart ==
    \/ Lifecycle(Platforms, TestOutcomes, BOOLEAN, BOOLEAN, {"ok", "error"}, TestOutcomes,
                 BOOLEAN, StartOutcomes, {FALSE})
    \/ Producers({"move", "press"})

SpecStart == Init /\ [][NextStart]_vars

\* Sessions in which any step of stop_recording may raise.
NextTeardown ==
    \/ Lifecycle({"Darwin"}, {"ok"}, BOOLEAN, {TRUE}, {"ok"}, {"ok"}, {TRUE}, {"ok"}, BOOLEAN)
    \/ Producers({"move", "press"})

SpecTeardown == Init /\ [][NextTeardown]_vars

\* Sessions in which the client's pause and resume calls may raise.
NextClient ==
    \/ Lifecycle({"Darwin"}, {"ok"}, BOOLEAN, {TRUE}, {"ok"}, {"ok"}, {TRUE}, {"ok"}, {FALSE})
    \/ Producers({"move", "press"})
    \/ PauseOps(BOOLEAN)

SpecClient == Init /\ [][NextClient]_vars

\* Sessions in which a put may raise in any of its producers.
NextQueue ==
    \/ Lifecycle({"Darwin"}, {"ok"}, BOOLEAN, {TRUE}, {"ok"}, {"ok"}, {TRUE}, {"ok"}, {FALSE})
    \/ Producers({"move", "press"})
    \/ PauseOps({TRUE})
    \/ \E a \in {"move", "press"} : handler_put_fails(a)
    \/ sentinel_put_fails
    \/ \E paused \in BOOLEAN : control_put_fails(paused)

SpecQueue == Init /\ [][NextQueue]_vars

\* Sessions in which a handler may raise while it builds its event.
NextCapture ==
    \/ Lifecycle({"Darwin"}, {"ok"}, BOOLEAN, {TRUE}, {"ok"}, {"ok"}, {TRUE}, {"ok"}, {FALSE})
    \/ Producers({"click", "press"})
    \/ \E a \in {"click", "press"} : handler_capture_fails(a)

SpecCapture == Init /\ [][NextCapture]_vars

\* The application driving its recorder through the record and pause toggles:
\* OBSClient construction and the client's start call may fail, a stop toggle is
\* stop_recording, terminate, del, and a further record toggle creates the next
\* Recorder.
NextApp ==
    \/ Startup({"Darwin"}, {"ok"}, {TRUE}, BOOLEAN, {"ok"}, {"ok"}, BOOLEAN, {"ok"})
    \/ WriterLoop
    \/ toggle_record_stop
    \/ stop_listeners(FALSE, FALSE)
    \/ stop_obs(FALSE)
    \/ stop_close(FALSE)
    \/ stop_save(FALSE)
    \/ run_final
    \/ Handler("move")
    \/ toggle_pause(TRUE)
    \/ terminate
    \/ thread_killed
    \/ toggle_record_again
    \/ rename_directory

SpecApp == Init /\ [][NextApp]_vars

----------------------------------------------------------------------------
\* The session with time: the clock advances only while the writer is blocked in
\* event_queue.get, every other step takes no time, and the time tests of the
\* loop are computed from run's locals.

\* Half a time unit passes while event_queue.get(timeout=0.5) waits on the empty
\* queue.
Tick ==
    /\ runPc = "get"
    /\ event_queue = <<>>
    /\ now - get_start < GetTimeout
    /\ now < MaxTime
    /\ now' = now + 1
    /\ UNCHANGED <<ctorVars, macos_monitor, events_file, is_recording, is_paused,
                   event_queue, log, capture_method, backendVars, runPc, stopPc,
                   obs_calls, timings_added, stopped_signals, term_requested, enqueued,
                   faulted, stopGhost, pauseGhost, deliveries, current_time,
                   last_sentinel_time, last_file_write_time, get_start, silenceGhost>>

\* The writer loop of run on the clock: get raises Empty when its timeout has
\* passed.
TimedWriterLoop ==
    \/ run_loop_head(DirectDue)
    \/ run_get_event
    \/ /\ now - get_start >= GetTimeout
       /\ run_get_empty(SentinelDue)
    \/ Tick

\* A Recording session with native listeners on the clock: input events arrive
\* at any time, nothing fails, nothing pauses or stops the session.
NextTimed ==
    \/ Startup({"Other"}, {"ok"}, {TRUE}, {TRUE}, {"ok"}, {"ok"}, {TRUE}, {"ok"})
    \/ TimedWriterLoop
    \/ \E a \in {"move", "press"} : Handler(a)

SpecTimed == Init /\ [][NextTimed]_vars

\* Sessions in which one write or flush of the writer loop raises.
NextWrite ==
    \/ Lifecycle({"Darwin"}, {"ok"}, BOOLEAN, {TRUE}, {"ok"}, {"ok"}, {TRUE}, {"ok"}, {FALSE})
    \/ Producers({"move", "press"})
    \/ \E kept \in BOOLEAN : run_get_event_fails(kept)

SpecWrite == Init /\ [][NextWrite]_vars

\* The steps of stop_recording once it has found the flag set.
StopRuns ==
    \/ \E raised \in BOOLEAN, raised_md \in BOOLEAN : stop_listeners(raised, raised_md)
    \/ \E raised \in BOOLEAN : stop_obs(raised)
    \/ \E raised \in BOOLEAN : stop_close(raised)
    \/ \E raised \in BOOLEAN : stop_save(raised)

\* Sessions whose construction and start may fail, stopped by the stop toggle,
\* in which any step of stop_recording may raise.  The caller's thread keeps running: a step of
\* stop_recording that can be taken is taken (the calls it makes return or raise).
NextStop ==
    \/ Startup(Platforms, {"ok"}, BOOLEAN, {TRUE}, {"ok", "error"}, {"ok", "error"},
               BOOLEAN, StartOutcomes)
    \/ WriterLoop
    \/ toggle_record_stop
    \/ StopRuns
    \/ run_final
    \/ Producers({"move"})

SpecStop == Init /\ [][NextStop]_vars /\ WF_vars(StopRuns)

\* A session of a recorder whose client was constructed in any of the ways
\* OBSClient.__init__ can return, stopped by the stop toggle, with the client's
\* stop spelled out.  Nothing is enqueued in these sessions, so every get of the
\* writer loop times out.
NextRestore ==
    \/ NextObs
    \/ /\ obsPc = "done"
       /\ Startup({"Darwin"}, {"ok"}, {TRUE}, {TRUE}, {"ok"}, {"ok"}, {TRUE}, {"ok"})
    \/ run_loop_head(FALSE)
    \/ run_get_empty(FALSE)
    \/ toggle_record_stop
    \/ stop_listeners(FALSE, FALSE)
    \/ \E out1 \in RequestOutcomes, out2 \in RequestOutcomes : stop_obs_restore(out1, out2)
    \/ stop_close(FALSE)
    \/ stop_save(FALSE)
    \/ run_final

SpecRestore == Init /\ [][NextRestore]_vars

\* The recorder's state-change notifications.  on_record_state_changed runs on
\* the event client's thread, one notification at a time, from its registration
\* in OBSClient.__init__ on; nothing unregisters it.  A notification may
\* arrive at any time and name either of two states.
OutputStates == {"OBS_WEBSOCKET_OUTPUT_STARTED", "OBS_WEBSOCKET_OUTPUT_PAUSED"}

\* The list the callback appends to: the one kept for the state, or a new one.
ListForFresh(events, s) == <<>>
ListFor(events, s) == IF s \in DOMAIN events THEN events[s] ELSE <<>>

notifyFrame == <<platform, ctor, use_fallback, thread_handle_error_detected, mouse_listener,
                 keyboard_listener, smoke_capability_error, backend_error, second_recorder,
                 obsVars, putGhost, appGhost, monitorVars, macos_monitor, events_file,
                 is_recording, is_paused, event_queue, log, capture_method, backendVars,
                 runPc, stopped_signals, term_requested, enqueued, pauseGhost, deliveries,
                 clockVars, silenceGhost>>

\* output_state = data.output_state; if output_state not in
\* self.record_state_events: self.record_state_events[output_state] = [].
on_record_state_changed(s) ==
    /\ ctor = "ok"
    /\ notifyPc = "idle"
    /\ Len(arrivals) < MaxNotifications
    /\ output_state' = s
    /\ arrivals' = Append(arrivals, s)
    /\ record_state_events' =
           [t \in DOMAIN record_state_events \cup {s} |->
               IF t = s THEN ListFor(record_state_events, s) ELSE record_state_events[t]]
    /\ notifyPc' = "append"
    /\ UNCHANGED <<notifyFrame, perf_counter, handed, stopPc, obs_calls, timings_added,
                   faulted, stopGhost>>

\* self.record_state_events[output_state].append(time.perf_counter()): the
\* clock is monotonic and two notifications are far enough apart for its
\* readings to differ.
on_record_state_append ==
    /\ notifyPc = "append"
    /\ perf_counter' = perf_counter + 1
    /\ record_state_events' =
           [record_state_events EXCEPT ![output_state] = Append(@, perf_counter + 1)]
    /\ notifyPc' = "idle"
    /\ UNCHANGED <<notifyFrame, output_state, arrivals, handed, stopPc, obs_calls,
                   timings_added, faulted, stopGhost>>

\* self.obs_client.stop_recording(), the first statement of the try.
stop_obs_client(raised) ==
    /\ stopPc = "obs"
    /\ obs_calls' = Append(obs_calls, "stop")
    /\ IF raised
       THEN /\ stop_done' = Executed({"obs"})
            /\ stop_raised' = stop_raised \cup Raised("obs", TRUE)
            /\ faulted' = TRUE
            /\ stopPc' = StopAfter("obs", TRUE)
       ELSE /\ stopPc' = "obs_timings"
            /\ UNCHANGED <<stop_done, stop_raised, faulted>>
    /\ UNCHANGED <<notifyFrame, notifyVars, timings_added, stop_calls, stop_at>>

\* self.metadata_manager.add_obs_record_state_timings(
\* self.obs_client.record_state_events), the second statement of the try.
stop_obs_timings ==
    /\ stopPc = "obs_timings"
    /\ timings_added' = TRUE
    /\ handed' = record_state_events
    /\ stop_done' = Executed({"obs"})
    /\ stopPc' = StopAfter("obs", FALSE)
    /\ UNCHANGED <<notifyFrame, notifyPc, output_state, record_state_events, arrivals,
                   perf_counter, obs_calls, faulted, stop_raised, stop_calls, stop_at>>

\* A session with pause toggles, stopped by the stop toggle, while the recorder
\* sends state-change notifications.
NextNotify ==
    \/ Startup({"Other"}, {"ok"}, {TRUE}, {TRUE}, {"ok"}, {"ok"}, {TRUE}, {"ok"})
    \/ run_loop_head(FALSE)
    \/ run_get_event
    \/ run_get_empty(FALSE)
    \/ toggle_pause(TRUE)
    \/ \E s \in OutputStates : on_record_state_changed(s)
    \/ on_record_state_append
    \/ toggle_record_stop
    \/ stop_listeners(FALSE, FALSE)
    \/ \E raised \in BOOLEAN : stop_obs_client(raised)
    \/ stop_obs_timings
    \/ stop_close(FALSE)
    \/ stop_save(FALSE)
    \/ run_final

SpecNotify == Init /\ [][NextNotify]_vars

\* Time passes at any point of the writer loop: the recorder thread is delayed
\* (descheduled, or held by a slow write) for a tick.
SlowTick ==
    /\ runPc \in {"loop", "get"}
    /\ now < MaxTime
    /\ now' = now + 1
    /\ UNCHANGED <<ctorVars, macos_monitor, events_file, is_recording, is_paused,
                   event_queue, log, capture_method, backendVars, runPc, stopPc,
                   obs_calls, timings_added, stopped_signals, term_requested, enqueued,
                   faulted, stopGhost, pauseGhost, deliveries, current_time,
                   last_sentinel_time, last_file_write_time, get_start, silenceGhost>>

\* A Recording session with native listeners on a clock that the writer does
\* not keep up with: its iterations may come late by any number of ticks.
NextSlow ==
    \/ Startup({"Other"}, {"ok"}, {TRUE}, {TRUE}, {"ok"}, {"ok"}, {TRUE}, {"ok"})
    \/ run_loop_head(DirectDue)
    \/ run_get_event
    \/ /\ now - get_start >= GetTimeout
       /\ run_get_empty(SentinelDue)
    \/ SlowTick
    \/ /\ deliveries < MaxSlowInputs
       /\ Handler("move")

SpecSlow == Init /\ [][NextSlow]_vars

\* A session on the fallback monitor (macOS, permission check failed) on the
\* clock, up to the writer's loop: the monitor's thread samples and reports, and
\* the session may be paused, resumed and stopped by the stop toggle.
NextMonitor ==
    \/ Startup({"Darwin"}, {"ok"}, {FALSE}, {TRUE}, {"ok"}, {"ok"}, {TRUE}, {"ok"})
    \/ monitor_begin
    \/ \E out \in SampleOutcomes, pos \in SamplePositions :
          /\ out # "position" => pos = Origin
          /\ monitor_sample(out, pos)
    \/ monitor_sentinel
    \/ MonitorTick
    \/ PauseOps({TRUE})
    \/ toggle_record_stop
    \/ stop_listeners(FALSE, FALSE)
    \/ stop_obs(FALSE)
    \/ stop_close(FALSE)
    \/ stop_save(FALSE)

SpecMonitor == Init /\ [][NextMonitor]_vars

----------------------------------------------------------------------------
\* Properties.

\* The records of the log that came through the queue, in file order.
QueuedInLog == SelectSeq(log, LAMBDA r : r.id > 0)

\* Positions of the log holding record r.
Positions(r) == {k \in DOMAIN log : log[k] = r}

\* Calls of one kind issued on the client.
CountCalls(c) == Cardinality({i \in DOMAIN obs_calls : obs_calls[i] = c})

\* Input records put on the queue so far.
InputsEnqueued == {i \in DOMAIN enqueued : enqueued[i].action \in InputKinds}

\* The lifecycle state of the session.
SessionState ==
    IF is_recording
    THEN IF is_paused THEN "Paused" ELSE "Recording"
    ELSE IF runPc \in {"unstarted", "set_flag"} THEN "Idle" ELSE "Stopped"

\* The writer had reached its loop when the effective stop_recording was called.
StoppedInLoop == stop_at \in {"loop", "get"}

\* C1: once events.jsonl is closed after a session in which no collaborator
\* failed and whose writer was in its loop when Stop was called, the first record
\* of the log is recording_started and its last record is recording_ended.
C1_LogBracketed ==
    (events_file = "closed" /\ ~faulted /\ StoppedInLoop) =>
        /\ log # <<>>
        /\ log[1].action = "recording_started"
        /\ log[Len(log)].action = "recording_ended"

\* C2: once events.jsonl is closed with recording_ended as its last record,
\* every input record a handler put on the queue (handlers put only while
\* _is_recording is set, that is before Stop) is in the log exactly once, after
\* input_capture_method and before recording_ended, and the queue is empty.
C2_EnqueuedInputsWritten ==
    (/\ events_file = "closed" /\ ~faulted /\ StoppedInLoop
     /\ log # <<>> /\ log[Len(log)].action = "recording_ended") =>
        /\ event_queue = <<>>
        /\ \A i \in InputsEnqueued :
              /\ Cardinality(Positions(enqueued[i])) = 1
              /\ \A k \in Positions(enqueued[i]) :
                    /\ \E m \in 1..(k - 1) : log[m].action = "input_capture_method"
                    /\ \E e \in (k + 1)..Len(log) : log[e].action = "recording_ended"

\* C3: the records of the log that came through the queue are records that were
\* put, each at most once, in the order of the puts; what is still queued was put
\* after everything the writer has taken out.
C3_FifoOrder ==
    LET w == QueuedInLog
    IN  /\ \A i \in DOMAIN w : w[i].id \in DOMAIN enqueued /\ w[i] = enqueued[w[i].id]
        /\ \A i, j \in DOMAIN w : i < j => w[i].id < w[j].id
        /\ \A i, j \in DOMAIN event_queue : i < j => event_queue[i].id < event_queue[j].id
        /\ \A i \in DOMAIN w, j \in DOMAIN event_queue : w[i].id < event_queue[j].id

\* C3 witness: two queued records are in the log while another waits in the
\* queue (the producers are ahead of the writer).
C3_Witness ==
    /\ Len(QueuedInLog) >= 2
    /\ Len(event_queue) >= 1

\* C4: when an effective stop_recording has returned, each of the five teardown
\* steps was executed, whichever of them raised, and recording_stopped was
\* emitted exactly once.
C4_TeardownCompletes ==
    (stopPc = "idle" /\ stop_done # {}) =>
        /\ stop_done = StopSteps
        /\ stopped_signals = 1

\* C4 witness: stop_recording has returned after all five steps raised.
C4_Witness ==
    /\ stopPc = "idle"
    /\ stop_raised = StopSteps
    /\ stopped_signals = 1

\* C5: after a start that failed partway, the log file that was opened is closed
\* and no capture backend runs: at once when Recorder() itself raised (toggle_record
\* keeps no recorder a Stop could be called on), and after the effective
\* stop_recording has returned when the recorder thread ended in an exception.
C5_FailedStartReleased ==
    /\ ctor = "failed" => events_file # "open"
    /\ (runPc = "crashed" /\ stopPc = "idle" /\ stop_done # {}) =>
           /\ events_file = "closed"
           /\ ~mouse_running /\ ~keyboard_running /\ ~monitor_running

\* C6: every pause and every resume that took effect (its client call was
\* issued) put exactly one record of its kind on the queue, also when the client
\* call raised.
C6_PauseResumeRecorded ==
    /\ CountAction(enqueued, "pause") = CountCalls("pause")
    /\ CountAction(enqueued, "resume") = CountCalls("resume")

\* C7, as claimed: an input event delivered by the backend while the session is
\* Paused is put on the queue.
C7_InputLoggedWhilePaused ==
    [][(deliveries' = deliveries + 1 /\ SessionState = "Paused")
          => Len(enqueued') = Len(enqueued) + 1]_vars

\* C7, amended: Pause stops neither the capture backend nor the writer, and an
\* input event delivered while the session is Paused is discarded: nothing is put
\* on the queue and nothing is written.
C7_InputDroppedWhilePaused ==
    [][/\ (pause_calls' = pause_calls + 1) => UNCHANGED <<backendVars, runPc>>
       /\ (deliveries' = deliveries + 1 /\ SessionState = "Paused")
             => UNCHANGED <<event_queue, enqueued, log>>]_vars

\* C7 witness: the session is Paused, never stopped, its backend runs, and a
\* delivered input event was discarded (fewer input records were put than handlers
\* were invoked, and a handler runs only after _is_recording was set).
C7_Witness ==
    /\ SessionState = "Paused"
    /\ stop_calls = 0
    /\ mouse_running \/ monitor_running
    /\ deliveries > Cardinality(InputsEnqueued)

\* C8: a session whose smoke test raised the capability error (_ThreadHandle
\* TypeError) records one of the fallback methods in input_capture_method.
C8_FallbackAfterCapabilityError ==
    smoke_capability_error =>
        \A k \in DOMAIN log :
            log[k].action = "input_capture_method" => log[k].method \in FallbackMethods

\* Input records written directly after a sentinel although the silence before
\* them was longer than w ticks.
SignalledAfter(w) ==
    {k \in 2..Len(log) : /\ log[k].action \in InputKinds
                         /\ gaps[log[k].id] > w
                         /\ log[k - 1].action \in {"sentinel", "direct_sentinel"}}

\* C9, as claimed: an input record that arrived after a silence longer than the
\* liveness window (2 time units) is written only after a sentinel or
\* direct_sentinel record that follows the input record before it.
C9_SentinelWithinWindow == unsignalled_gap <= SentinelWindow

\* C9, amended: the same with the window lengthened by two timeouts of
\* event_queue.get (3 time units in all): the sentinel test is made only when a
\* get has timed out, on the time taken at the head of that iteration.
C9_SentinelWithinWindowAndPolls == unsignalled_gap <= SentinelWindow + 2 * GetTimeout

\* C9 witness: an input record that arrived after a silence of more than 3 time
\* units is in the log, directly after a sentinel.
C9_Witness == SignalledAfter(SentinelWindow + 2 * GetTimeout) # {}

\* C11: when the application creates its next Recorder, the earlier session is
\* neither Recording nor Paused (its recording flag is clear).
C11_OneActiveSession == second_recorder # "while_active"

\* C13: when the recorder thread has ended with no stop_recording call made
\* (through an exception, or through the end of run after one), the log has
\* recording_started as its first record and recording_ended as its last.
C13_AbnormalLogBracketed ==
    (runPc \in {"crashed", "done"} /\ stop_calls = 0) =>
        /\ log # <<>>
        /\ log[1].action = "recording_started"
        /\ log[Len(log)].action = "recording_ended"

\* The client's start call raised in the recorder thread (the only exception
\* that ends run while no stop_recording call was made).
StartCallFailed == runPc = "crashed" /\ stop_calls = 0

\* C14: when the client's start call has failed, the start was not reported to
\* the caller as a success (toggle_record's Recorder() and start() did not both
\* return) and the recording flag is not set.
C14_FailedStartSurfaced ==
    StartCallFailed => (ctor # "ok" /\ ~is_recording)

\* Connection attempts that failed.
FailedAttempts == {i \in DOMAIN connect_log : connect_log[i] # "ok"}

\* The retry loop has ended: by break, or by the raise of the last attempt.
ConnectEnded == obsPc \notin {"idle", "connect", "sleep"}
ConnectRaised == obsPc = "raised" /\ issued = <<>>

\* C15: the retry loop makes at most max_retries (3) attempts, none after a
\* successful one, sleeps once after every failed attempt but the last, raises
\* exactly when three attempts have failed, and always ends.
C15_BoundedRetry ==
    /\ [](/\ Len(connect_log) <= max_retries
          /\ \A i \in DOMAIN connect_log : connect_log[i] = "ok" => i = Len(connect_log)
          /\ ConnectEnded =>
                /\ sleeps = Cardinality(FailedAttempts \ {max_retries})
                /\ ConnectRaised <=> Cardinality(FailedAttempts) = max_retries)
    /\ <>ConnectEnded

\* C15 witness: the connection succeeded at the third attempt, after two
\* backoffs.
C15_Witness ==
    /\ ConnectEnded /\ ~ConnectRaised
    /\ Len(connect_log) = max_retries
    /\ sleeps = max_retries - 1

\* C16: when exactly one request of the configuration sequence, a
\* set_profile_parameter call, has failed and __init__ has ended, every request
\* of the sequence was issued and __init__ returned normally.
C16_ConfigurationContinues ==
    (/\ obsPc \in {"done", "raised"}
     /\ Cardinality(cfg_failed) = 1
     /\ \E k \in DOMAIN ParameterSteps : ParameterSteps[k] \in cfg_failed) =>
        /\ obsPc = "done"
        /\ issued = ConfigSteps

\* C17: the calls issued on the client so far are start first, then pause and
\* resume alternating from pause, then at most one stop, which is the last call.
C17_ClientCallOrder ==
    \A i \in DOMAIN obs_calls :
        /\ (obs_calls[i] = "start") <=> (i = 1)
        /\ obs_calls[i] = "pause" => obs_calls[i - 1] \in {"start", "resume"}
        /\ obs_calls[i] = "resume" => obs_calls[i - 1] = "pause"
        /\ obs_calls[i] = "stop" => i = Len(obs_calls)

\* C18: an effective stop_recording clears the recording flag first, then stops
\* the backend and finalizes metadata, then stops the client and hands over its
\* timings, then closes the log, then persists metadata and emits the signal:
\* each step starts only where the one before it ended and does its own work only.
C18_StopOrder ==
    [][/\ (is_recording /\ ~is_recording') => (stopPc = "idle" /\ stopPc' = "listeners")
       /\ (stopPc = "idle" /\ stopPc' # "idle") => (~is_recording' /\ stop_done' = {})
       /\ (stopPc = "listeners" /\ stopPc' # "listeners") =>
             /\ stopPc' = "obs"
             /\ stop_done' = {"listeners", "metadata"}
             /\ ~mouse_running' /\ ~keyboard_running' /\ ~monitor_running'
             /\ UNCHANGED <<obs_calls, timings_added, events_file, stopped_signals>>
       /\ (stopPc = "obs" /\ stopPc' # "obs") =>
             /\ stopPc' = "close"
             /\ stop_done' = {"listeners", "metadata", "obs"}
             /\ obs_calls' = Append(obs_calls, "stop")
             /\ timings_added'
             /\ UNCHANGED <<events_file, stopped_signals>>
       /\ (stopPc = "close" /\ stopPc' # "close") =>
             /\ stopPc' = "save"
             /\ stop_done' = {"listeners", "metadata", "obs", "close"}
             /\ events_file = "open" /\ events_file' = "closed"
             /\ UNCHANGED <<obs_calls, stopped_signals>>
       /\ (stopPc = "save" /\ stopPc' # "save") =>
             /\ stopPc' = "idle"
             /\ stop_done' = StopSteps
             /\ stopped_signals' = stopped_signals + 1
             /\ UNCHANGED <<obs_calls, events_file>>]_vars

\* C18 witness: the stop of a Paused session has gone through all its steps,
\* none of which raised.
C18_Witness ==
    /\ is_paused
    /\ stopPc = "idle"
    /\ stop_done = StopSteps
    /\ stop_raised = {}
    /\ stopped_signals = 1
    /\ events_file = "closed"

\* C19: a put that raises changes neither the queue nor the put history, and
\* its exception never leaves the producer that made the call.
C19_FailedEnqueueDropped ==
    /\ [][(put_failures' # put_failures) => UNCHANGED <<event_queue, enqueued>>]_vars
    /\ [](~producer_raised)

\* What a capture error must leave alone.
captureVars == <<is_recording, is_paused, event_queue, enqueued, log, events_file,
                 backendVars, runPc, stopPc, obs_calls>>

\* C20: a handler that raises while it builds its event puts nothing, leaves
\* the flags, the queue, the log and the running backend as they were, and a
\* handler invoked on the Recording session without an error still puts its
\* record, whatever errors came before.
C20_CaptureErrorDiscarded ==
    [][/\ (error_marks' # error_marks) => UNCHANGED captureVars
       /\ (/\ deliveries' = deliveries + 1
           /\ error_marks' = error_marks
           /\ put_failures' = put_failures
           /\ CallbackGuard) =>
             /\ Len(enqueued') = Len(enqueued) + 1
             /\ enqueued'[Len(enqueued')].action \in InputKinds]_vars

\* C20 witness: an input record that was put after a capture error is in the
\* log.
C20_Witness ==
    \E i \in DOMAIN error_marks : \E k \in DOMAIN log :
        log[k].id > error_marks[i] /\ log[k].action \in InputKinds

\* C21: in a session whose listener construction (or listener test) raised an
\* exception that is no capability error, the constructor returned, the method
\* recorded in input_capture_method is none, and no backend runs.
C21_ContinuesScreenOnly ==
    backend_error =>
        /\ ctor = "ok"
        /\ \A k \in DOMAIN log :
              log[k].action = "input_capture_method" => log[k].method = "none"
        /\ ~mouse_running /\ ~keyboard_running /\ ~monitor_running

\* C22: the method written in input_capture_method names the backend that
\* runs: the fallback monitor runs only under a fallback method, a native
\* listener only under the native method, and the log holds one method record.
C22_MethodNamesBackend ==
    /\ monitor_running => capture_method \in FallbackMethods
    /\ (mouse_running \/ keyboard_running) => capture_method = NativeMethod
    /\ Cardinality({k \in DOMAIN log : log[k].action = "input_capture_method"}) <= 1

\* C23: the native listeners and the fallback monitor never run at the same
\* time.
C23_OneBackendRunning ==
    ~(monitor_running /\ (mouse_running \/ keyboard_running))

\* C24: when the application renames the session directory, events.jsonl has
\* been closed.
C24_ClosedBeforeRename == renamed_with \in {"none", "closed"}

\* C27: once the stop toggle's stop_recording has returned (terminate follows
\* it), the teardown was performed: the log is closed, the client was stopped
\* and recording_stopped was emitted.
C27_StopToggleTearsDown ==
    term_requested =>
        /\ events_file = "closed"
        /\ \E k \in DOMAIN obs_calls : obs_calls[k] = "stop"
        /\ stopped_signals >= 1

\* C25: once stop_recording, called on a session whose backends had been
\* started (the writer was in its loop), has gone through its close step, no
\* backend is running.
C25_ProducersQuiesced ==
    (StoppedInLoop /\ "close" \in stop_done) =>
        ~mouse_running /\ ~keyboard_running /\ ~monitor_running

\* C26: the step that closes events.jsonl is no step of the control thread's
\* stop_recording, and the writer thread attempts no write (recording_ended, or a
\* dequeued event) on a log that is not open.
C26_WriterOwnsLog ==
    [][/\ (events_file = "open" /\ events_file' = "closed") => stopPc' = stopPc
       /\ ~(runPc = "final" /\ runPc' = "done" /\ ~FileOpen)
       /\ ~(runPc = "get" /\ runPc' = "loop" /\ event_queue # <<>> /\ ~FileOpen)]_vars

\* C28: the monitor makes no sampling attempt after max_permission_checks
\* consecutive failed samples (a further attempt that fails would make the
\* streak longer than that).
C28_SamplingGivenUp == failed_streak <= max_permission_checks

\* C29 as stated: in a session that is recording, every period test of the
\* monitor that finds more than the period elapsed since its last sentinel
\* enqueues a sentinel record.
C29_SentinelEveryPeriod ==
    [][(/\ monPc = "period" /\ monPc' = "head"
        /\ mon_current_time - mon_last_sentinel_time > MonitorSentinelSeconds * TicksPerUnit
        /\ is_recording)
       => (/\ Len(enqueued') = Len(enqueued) + 1
           /\ enqueued'[Len(enqueued')].action = "sentinel")]_vars

\* C29, amended: the same in a session that is recording and not paused,
\* whatever the last sample was and whether or not sampling has been given up.
C29_SentinelEveryPeriodUnlessPaused ==
    [][(/\ monPc = "period" /\ monPc' = "head"
        /\ mon_current_time - mon_last_sentinel_time > MonitorSentinelSeconds * TicksPerUnit
        /\ is_recording /\ ~is_paused)
       => (/\ Len(enqueued') = Len(enqueued) + 1
           /\ enqueued'[Len(enqueued')].action = "sentinel")]_vars

\* A sentinel was enqueued by a period test that followed a failed sample.
C29_Witness ==
    /\ monPc = "head"
    /\ is_recording /\ ~is_paused
    /\ mon_last_sentinel_time = mon_current_time
    /\ mon_current_time > 0
    /\ failed_streak > 0
    /\ enqueued # <<>>
    /\ enqueued[Len(enqueued)].action = "sentinel"

\* C30: a sampling step of the monitor that enqueues a record enqueues a move
\* record, and the position it sampled is not the origin; a sample that came out
\* as the origin (a failed one included) enqueues nothing.
C30_MoveOnlyOffOrigin ==
    [][(monPc = "head" /\ monPc' = "period" /\ enqueued' # enqueued)
       => (/\ sample_xy' # Origin
           /\ failed_streak' = 0
           /\ enqueued'[Len(enqueued')].action = "move")]_vars

\* A sample off the origin has been enqueued as a move record.
C30_Witness ==
    /\ monPc = "period"
    /\ sample_xy # Origin
    /\ enqueued # <<>>
    /\ enqueued[Len(enqueued)].action = "move"

\* C31: an iteration of the writer loop that begins, in a session that is
\* recording, more than DirectSeconds after the last write appends a
\* direct_sentinel record to the log and puts nothing on the queue.
C31_DirectSentinelWhenSilent ==
    [][(/\ runPc = "loop" /\ runPc' = "get"
        /\ is_recording /\ FileOpen
        /\ now - last_file_write_time > DirectSeconds * TicksPerUnit)
       => (/\ log' = Append(log, Direct("direct_sentinel"))
           /\ event_queue' = event_queue
           /\ enqueued' = enqueued)]_vars

\* A direct sentinel is in the log of a session whose queue never held an event.
C31_Witness ==
    /\ enqueued = <<>>
    /\ log # <<>>
    /\ log[Len(log)].action = "direct_sentinel"

\* A step that puts a sentinel record on the queue.
SentinelEnqueued ==
    /\ Len(enqueued') = Len(enqueued) + 1
    /\ enqueued'[Len(enqueued')].action = "sentinel"

\* C32 as stated: the writer enqueues a sentinel only when no input event has
\* arrived within the liveness window, measured from the last event's arrival.
C32_SentinelOnlyAfterSilence ==
    [][SentinelEnqueued => now - last_arrival > SentinelSeconds * TicksPerUnit]_vars

\* C32, amended: the writer enqueues a sentinel exactly when a get on the empty
\* queue has timed out and more than the window has passed, at the head of the
\* iteration, since the previous sentinel (or the start of the loop); it then
\* restarts the window.
C32_SentinelSinceLastSentinel ==
    [][/\ SentinelEnqueued =>
           (/\ runPc = "get" /\ event_queue = <<>>
            /\ current_time - last_sentinel_time > SentinelSeconds * TicksPerUnit
            /\ last_sentinel_time' = current_time)
       /\ (/\ runPc = "get" /\ runPc' = "loop" /\ event_queue = <<>>
           /\ current_time - last_sentinel_time > SentinelSeconds * TicksPerUnit)
          => SentinelEnqueued]_vars

\* A sentinel was enqueued although an input event had arrived within the
\* window.
C32_Witness ==
    /\ runPc = "loop"
    /\ enqueued # <<>>
    /\ enqueued[Len(enqueued)].action = "sentinel"
    /\ last_sentinel_time = current_time
    /\ CountAction(enqueued, "move") > 0
    /\ now - last_arrival <= SentinelSeconds * TicksPerUnit

\* C33: a session in which one write of the writer loop failed and which was
\* stopped while the writer was in its loop ends, once the writer is done, with
\* recording_ended as the last record of its log.
C33_WriteFailureIsolated ==
    (write_failed /\ StoppedInLoop /\ runPc = "done" /\ stopPc = "idle") =>
        /\ log # <<>>
        /\ log[Len(log)].action = "recording_ended"

\* C34: a stop_recording call that has found the flag set returns (one that
\* has not returns at once: it never leaves the idle position).
C34_StopTerminates == (stopPc # "idle") ~> (stopPc = "idle")

\* stop_recording has returned in a session that started no backend, or whose
\* client start call had raised, or whose fallback monitor's thread has not ended.
C34_Witness ==
    /\ stop_at # "none"
    /\ stopPc = "idle"
    /\ "save" \in stop_done
    /\ \/ capture_method = "none"
       \/ runPc = "crashed"
       \/ (StopsMonitor /\ ~monitor_running /\ monPc # "ended")

\* C35: the restore call is issued only for a profile captured at construction,
\* and once stop_recording has returned from a session whose restore call
\* failed, the client's stop had returned normally and the teardown went on:
\* the timings were handed over, the log is closed, the metadata was saved.
C35_RestoreFailureAbsorbed ==
    /\ restore \in RequestOutcomes => OldProfileCaptured
    /\ (restore \in {"request_error", "other_error"} /\ stopPc = "idle") =>
           /\ "obs" \notin stop_raised
           /\ timings_added
           /\ events_file = "closed"
           /\ "save" \in stop_done

\* C36: an input_capture_method record of the log is its second record, right
\* after recording_started, and no backend runs before run has written it and
\* gone on to start one.
C36_MethodRecordSecond ==
    /\ \A k \in DOMAIN log :
          log[k].action = "input_capture_method" =>
              (k = 2 /\ log[1].action = "recording_started")
    /\ runPc \in {"unstarted", "set_flag", "obs_start", "write_started", "write_method",
                  "start_backend"}
          => (~mouse_running /\ ~keyboard_running /\ ~monitor_running)

\* The method record is in a log that goes on with input, pause and sentinel
\* records.
C36_Witness ==
    /\ Len(log) >= 2
    /\ log[2].action = "input_capture_method"
    /\ \E k \in DOMAIN log : log[k].action \in InputKinds
    /\ \E k \in DOMAIN log : log[k].action = "pause"

\* The pause and resume records put on the queue, in order.
IsPauseOrResume(r) == r.action \in {"pause", "resume"}
PauseResumeRecords == SelectSeq(enqueued, IsPauseOrResume)
Alternates(seq) ==
    \A i \in DOMAIN seq : seq[i].action = IF i % 2 = 1 THEN "pause" ELSE "resume"
UnmatchedPause == Len(PauseResumeRecords) % 2 = 1

\* C37 as stated: the pause and resume records alternate beginning with pause,
\* and the session is Paused exactly when one more pause than resume has been
\* enqueued.
C37_PausedIffUnmatchedPause ==
    /\ Alternates(PauseResumeRecords)
    /\ (SessionState = "Paused") <=> UnmatchedPause

\* C37, amended: the records alternate beginning with pause, the recorder's
\* paused flag is set exactly when one more pause than resume has been enqueued,
\* and the session is Paused exactly when that is so and no stop has taken
\* effect.
C37_PauseResumeAlternate ==
    /\ Alternates(PauseResumeRecords)
    /\ is_paused <=> UnmatchedPause
    /\ (SessionState = "Paused") <=> (UnmatchedPause /\ is_recording)

\* A session paused, resumed and paused again has been stopped.
C37_Witness ==
    /\ Len(PauseResumeRecords) = 3
    /\ stop_at # "none"
    /\ SessionState = "Stopped"

\* The notifications for state s whose callback has returned.
IsPrefix(a, b) == Len(a) <= Len(b) /\ SubSeq(b, 1, Len(a)) = a
CountState(seq, s) == Cardinality({i \in DOMAIN seq : seq[i] = s})
Handled(s) ==
    CountState(arrivals, s) - (IF notifyPc = "append" /\ output_state = s THEN 1 ELSE 0)

\* C38: each notification appends exactly one timestamp to the list kept for its
\* state, the lists only grow, at their end and in arrival order, whatever the
\* lifecycle operations do meanwhile, and the collection is handed to the
\* metadata only after the client's stop call has been issued.
C38_NotificationsAppended ==
    /\ [](\A s \in OutputStates :
             /\ Len(ListFor(record_state_events, s)) = Handled(s)
             /\ \A i, j \in DOMAIN ListFor(record_state_events, s) :
                    i <= j => record_state_events[s][i] <= record_state_events[s][j])
    /\ [][\A s \in DOMAIN record_state_events :
             /\ s \in DOMAIN record_state_events'
             /\ IsPrefix(record_state_events[s], record_state_events'[s])]_vars
    /\ [](timings_added =>
             /\ CountState(obs_calls, "stop") >= 1
             /\ \A s \in DOMAIN handed : IsPrefix(handed[s], ListFor(record_state_events, s)))

\* The collection was handed over after the client's stop, and a list in it has
\* grown since, to two timestamps.
C38_Witness ==
    /\ timings_added
    /\ \E s \in DOMAIN record_state_events :
          /\ Len(record_state_events[s]) = 2
          /\ s \in DOMAIN handed
          /\ Len(handed[s]) = 1
    /\ \E s \in OutputStates : s \notin DOMAIN record_state_events

\* What a call on a stopped session must leave alone.
stoppedVars == <<is_recording, is_paused, obs_calls, event_queue, enqueued, log,
                 events_file, backendVars, runPc, stopPc, stopped_signals, stop_done>>

\* C12: once a stop_recording call has taken effect, the recording flag is never
\* set again, the stopped signal is emitted at most once, and every later pause,
\* resume or stop call leaves the flags, the client, the queue, the log, the
\* backend and the signal count as they were.
C12_StoppedIsTerminal ==
    [][stop_at # "none" =>
          /\ ~is_recording'
          /\ stopped_signals' <= 1
          /\ (late_calls' # late_calls) => UNCHANGED stoppedVars]_vars

\* C12 witness: a session stopped while Paused, on which two more calls were
\* made after the stop had taken effect.
C12_Witness ==
    /\ is_paused
    /\ stopped_signals = 1
    /\ late_calls >= 2

\* What a rejected pause or resume must leave alone.
sessionVars == <<is_recording, is_paused, obs_calls, event_queue, enqueued, log,
                 events_file, backendVars, runPc, stopPc, stopped_signals>>

\* C10: a pause_recording call on a session that is not Recording, and a
\* resume_recording call on a session that is not Paused, change no state, issue
\* no client call and put no record; a call in the valid state flips the paused
\* flag and issues the client call.
C10_PauseResumeGuarded ==
    [][/\ (pause_calls' = pause_calls + 1) =>
             IF SessionState = "Recording"
             THEN is_paused' /\ obs_calls' = Append(obs_calls, "pause")
             ELSE UNCHANGED sessionVars
       /\ (resume_calls' = resume_calls + 1) =>
             IF SessionState = "Paused"
             THEN ~is_paused' /\ obs_calls' = Append(obs_calls, "resume")
             ELSE UNCHANGED sessionVars]_vars

\* C10 witness: a pause was rejected on a stopped session and a resume was
\* rejected as well.
C10_Witness ==
    /\ SessionState = "Stopped"
    /\ pause_calls > CountCalls("pause")
    /\ resume_calls > CountCalls("resume")

====
